---------------------------- MODULE Spec2Model ----------------------------
(***************************************************************************)
(* A model of the LLM dispatch layer of RAPTOR                              *)
(* (packages/llm_analysis/llm: client.py, providers.py, config.py).        *)
(*                                                                         *)
(* One LLMClient with its policy (LLMConfig), its ledger (total_cost,      *)
(* request_count), its adapter registry (providers) and its response       *)
(* cache.  A dispatch (generate or generate_structured) is modelled in     *)
(* the steps of the code: the prologue up to the candidate list, one step  *)
(* per adapter attempt (the try/except body of the retry loop), and the    *)
(* epilogue that raises when every candidate is exhausted.                 *)
(*                                                                         *)
(* Units: one cost unit is 0.1 USD, one token unit is 1000 tokens, one     *)
(* delay unit is a second.  sha256 is taken to be injective: a cache key   *)
(* is the string that is hashed.  Cache file I/O errors are not modelled.  *)
(***************************************************************************)
EXTENDS Integers, Sequences, FiniteSets, TLC

VARIABLES
    config,          \* LLMClient.config: the LLMConfig of the client
    total_cost,      \* LLMClient.total_cost
    request_count,   \* LLMClient.request_count
    providers,       \* LLMClient.providers: key -> adapter (config, counters)
    cache,           \* the files of config.cache_dir: cache key -> entry
    pc,              \* "idle" | "trying" | "done": position of the dispatch
    req,             \* the arguments of the dispatch in progress (or the last)
    model_config,    \* local of generate: the selected model
    cache_key,       \* local of generate: the key computed from the selection
    models_to_try,   \* local: the candidate list
    model_idx,       \* local: index (from 1) of the candidate being tried
    attempt,         \* local: attempt index against that candidate
    attempts_count,  \* local: number of candidates entered
    last_error,      \* local: <<>> (None) or <<e>>
    result,          \* what the dispatch returned or raised
    trace,           \* history: the events of the dispatch, in order
    adapter_calls,   \* history: the adapter invocations of the dispatch
    sleeps,          \* history: the time.sleep calls of the dispatch
    log_lines,       \* history: the log lines of the last failed adapter call
    start,           \* history: ledger and cache when the dispatch started
    dispatches,      \* history: number of dispatches started
    callbacks,       \* litellm.callbacks: the registered callback objects
    _raptor_llm_logger_instance,  \* the module's singleton: <<>> or <<object>>
    loggers_created, \* number of RaptorLLMLogger objects created so far
    constructed,     \* number of LLMClient objects constructed so far
    call_args,       \* the argument of a helper function called on its own
    call_result,     \* <<>>, or <<v>> once the helper has returned or raised v
    clients,         \* LLMClient objects used by threads: config and ledger
    cache_dirs,      \* the file system: cache directory -> cache key -> entry
    threads          \* the threads calling generate: client, position, locals

\* the state of one client and of its dispatch
client_vars == <<config, total_cost, request_count, providers, cache, pc, req,
                 model_config, cache_key, models_to_try, model_idx, attempt,
                 attempts_count, last_error, result, trace, adapter_calls,
                 sleeps, log_lines, start, dispatches>>

\* the state of the process around the client
process_vars == <<callbacks, _raptor_llm_logger_instance, loggers_created,
                  constructed>>

\* the call of one helper function outside any dispatch
pure_vars == <<call_args, call_result>>

\* clients called from threads of their own
threaded_vars == <<clients, cache_dirs, threads>>

others == <<process_vars, pure_vars, threaded_vars>>
not_process == <<client_vars, pure_vars, threaded_vars>>
not_pure == <<client_vars, process_vars, threaded_vars>>
not_threaded == <<client_vars, process_vars, pure_vars>>

vars == <<client_vars, others>>

locals == <<model_config, cache_key, models_to_try, model_idx, attempt,
            attempts_count, last_error>>

---------------------------------------------------------------------------
(* Bounds of the model *)

MaxCalls == 2        \* dispatches per behaviour
MaxRetries == 3      \* largest max_retries of a policy
MaxFallbacks == 2    \* longest fallback list of a policy
MaxClients == 3      \* LLMClient objects constructed in one process
MaxForeign == 3      \* callback objects registered by other code

---------------------------------------------------------------------------
(* Values *)

\* _check_budget's default estimated_cost, 0.1 USD
EstimatedCost == 1

\* ModelConfig: the fields the dispatcher reads
MC(p, n, e, r, k) ==
    [provider |-> p, model_name |-> n, enabled |-> e,
     cost_per_1k_tokens |-> r, api_key |-> k]

\* str.lower() on the provider ids of the model
lower(s) ==
    CASE s = "Ollama" -> "ollama"
      [] s = "OpenAI" -> "openai"
      [] OTHER -> s

\* mutant: the tier test without lower()
is_local_exact(m) == m.provider = "ollama"

\* the tier test of the dispatcher: provider.lower() == "ollama"
is_local(m) == lower(m.provider) = "ollama"

RECURSIVE Pow2(_)
Pow2(n) == IF n <= 0 THEN 1 ELSE 2 * Pow2(n - 1)

Range(s) == {s[i] : i \in DOMAIN s}

SeqsUpTo(S, n) == UNION {[1..k -> S] : k \in 0..n}


---------------------------------------------------------------------------
(* The policies, requests and adapter replies the model draws from *)

NoModel == MC("", "", FALSE, 0, "")

LocalA == MC("Ollama", "A", TRUE, 0, "k1")
LocalAOff == MC("ollama", "A", FALSE, 0, "k1")
RemoteA == MC("openai", "A", TRUE, 2, "k1")
LocalB == MC("ollama", "B", TRUE, 0, "k1")
LocalBOff == MC("ollama", "B", FALSE, 0, "k1")
RemoteB == MC("openai", "B", TRUE, 2, "k1")
RemoteA2 == MC("openai", "A", TRUE, 2, "k2")
LocalC == MC("ollama", "C", TRUE, 0, "k1")
RemoteNegRate == MC("openai", "N", TRUE, -2, "k1")

PrimaryModels == {LocalA, RemoteA, LocalAOff}
FallbackPool == {LocalB, RemoteB, LocalBOff}
FallbackLists == SeqsUpTo(FallbackPool, MaxFallbacks)
TaskTypes == {"exploit"}
SpecializedMaps ==
    {[t \in {} |-> NoModel]} \cup {[t \in TaskTypes |-> d] : d \in {RemoteB, LocalBOff}}
Overrides == {RemoteA2, LocalBOff}
Prompts == {"p", "q"}

Policy(primary, fallbacks, specialized, fallback, retries, caching, tracking) ==
    [primary_model |-> primary,
     fallback_models |-> fallbacks,
     specialized_models |-> specialized,
     enable_fallback |-> fallback,
     max_retries |-> retries,
     retry_delay |-> 2,
     retry_delay_remote |-> 5,
     enable_caching |-> caching,
     enable_cost_tracking |-> tracking,
     max_cost_per_scan |-> 2]

\* the policies whose client serves one dispatch: every shape of the
\* primary, the fallback list, the task table and the retry count
ShapePolicies ==
    {Policy(p, f, s, TRUE, n, TRUE, TRUE) :
        p \in PrimaryModels, f \in FallbackLists, s \in SpecializedMaps,
        n \in 1..MaxRetries}
    \cup
    {Policy(p, <<LocalB, RemoteB>>, s, FALSE, n, TRUE, TRUE) :
        p \in PrimaryModels, s \in SpecializedMaps, n \in 1..MaxRetries}

\* the policies whose client serves a sequence of dispatches: the cache
\* and the budget switched on and off
SequencePolicies ==
    {Policy(RemoteA, <<RemoteB, LocalB>>, [t \in TaskTypes |-> RemoteB],
            TRUE, 2, c[1], c[2]) :
        c \in {<<TRUE, TRUE>>, <<FALSE, TRUE>>, <<TRUE, FALSE>>}}

\* the policies with two eligible fallbacks of different model ids, in
\* both orders
OrderPolicies ==
    {Policy(LocalA, f, [t \in {} |-> NoModel], TRUE, 1, TRUE, TRUE) :
        f \in {<<LocalC, LocalB>>, <<LocalB, LocalC>>}}

\* the policy whose primary has a negative cost rate (ModelConfig takes
\* any float)
UnvalidatedPolicies ==
    {Policy(RemoteNegRate, <<>>, [t \in {} |-> NoModel], TRUE, 1, TRUE, TRUE)}

Policies ==
    ShapePolicies \cup OrderPolicies \cup UnvalidatedPolicies \cup SequencePolicies

\* the number of dispatches the model makes on a client of the policy
CallsFor(cfg) == IF cfg \in SequencePolicies THEN MaxCalls ELSE 1

\* the arguments of generate / generate_structured; "" stands for None
\* where the code only tests truthiness; model_config is <<>> or <<m>>.
\* Every selection is made with prompt "p"; the plain request is also
\* made with prompt "q", and the plain structured request also with a
\* declaration that does not compile
Request(kind, prompt, task_type, override, schema) ==
    [kind |-> kind, prompt |-> prompt, system_prompt |-> "",
     task_type |-> task_type, model_config |-> override, schema |-> schema]

\* the schema argument of generate_structured: its Python type and, for a
\* dict, its items (key, type of the value, value)
NoSchema == [python_type |-> "NoneType", items |-> <<>>]
ShorthandSchema ==
    [python_type |-> "dict",
     items |-> <<[key |-> "is_exploitable", value_type |-> "str", value |-> "boolean"],
                 [key |-> "score", value_type |-> "str", value |-> "float (0.0-1.0)"]>>]
ListSchema == [python_type |-> "list", items |-> <<>>]
SchemaFor(kind) == IF kind = "generate" THEN NoSchema ELSE ShorthandSchema

Kinds == {"generate", "generate_structured"}

Requests ==
    {Request(k, "p", t, o, SchemaFor(k)) :
        k \in Kinds, t \in {""} \cup TaskTypes,
        o \in {<<>>} \cup {<<m>> : m \in Overrides}}
    \cup {Request(k, q, "", <<>>, SchemaFor(k)) : k \in Kinds, q \in Prompts}
    \cup {Request("generate_structured", "p", "", <<>>, ListSchema)}

\* what the backend answers to one adapter call
Errors ==
    {[type |-> "Timeout", text |-> "timed out"],
     [type |-> "RateLimitError", text |-> "rate limit"],
     [type |-> "AuthenticationError",
      text |-> "Incorrect API key provided: sk-proj-0123456789abcdefghij. Check it."]}

Replies ==
    {[ok |-> TRUE, called |-> TRUE, content |-> h[1], tokens |-> 1,
      has_cost |-> h[2], response_cost |-> h[3], error |-> <<>>] :
        h \in {<<"x", FALSE, <<>>>>, <<"x", TRUE, <<>>>>, <<"x", TRUE, <<3>>>>,
               <<"", FALSE, <<>>>>}}
    \cup
    {[ok |-> FALSE, called |-> TRUE, content |-> "", tokens |-> 0,
      has_cost |-> FALSE, response_cost |-> <<>>, error |-> <<e>>] : e \in Errors}

\* the outcome of an adapter call that raises e before it calls the backend
RaisedBeforeCall(e) ==
    [ok |-> FALSE, called |-> FALSE, content |-> "", tokens |-> 0,
     has_cost |-> FALSE, response_cost |-> <<>>, error |-> <<e>>,
     backend_ok |-> FALSE, observer_fault |-> FALSE, observer_line |-> ""]

\* field_desc.split()[0]: <<>> when the description holds no token (the
\* subscript raises IndexError), <<token>> otherwise
first_token(field_desc) ==
    LET filled == {i \in 1..Len(field_desc) : SubSeq(field_desc, i, i) # " "}
    IN IF filled = {} THEN <<>>
       ELSE LET a == CHOOSE i \in filled : \A j \in filled : i <= j
                stops == {i \in a..Len(field_desc) : SubSeq(field_desc, i, i) = " "}
                b == IF stops = {} THEN Len(field_desc)
                     ELSE (CHOOSE i \in stops : \A j \in stops : i <= j) - 1
            IN <<SubSeq(field_desc, a, b)>>

\* the exception the item of a shorthand declaration raises, if any
shorthand_item_error(item) ==
    IF item.value_type = "str"
    THEN IF first_token(item.value) = <<>>
         THEN <<[type |-> "IndexError", text |-> "list index out of range"]>>
         ELSE <<>>
    ELSE IF item.value_type = "dict" THEN <<>>
    ELSE <<[type |-> "ValueError",
            text |-> "Invalid field description for '"
                     \o item.key \o "': " \o item.value]>>

\* the exception the field spec of a full-form declaration raises, if any
property_error(field_spec) ==
    IF field_spec.value_type = "dict" THEN <<>>
    ELSE <<[type |-> "AttributeError",
            text |-> "'" \o field_spec.value_type
                     \o "' object has no attribute 'get'"]>>

\* _dict_schema_to_pydantic, as far as it raises: <<>> when the declaration
\* compiles, <<e>> with the exception otherwise
_dict_schema_to_pydantic(schema) ==
    IF schema.python_type = "BaseModel" THEN <<>>
    ELSE IF schema.python_type # "dict"
    THEN <<[type |-> "ValueError",
            text |-> "Schema must be dict or Pydantic BaseModel class, got "
                     \o schema.python_type]>>
    ELSE LET full == \E i \in DOMAIN schema.items : schema.items[i].key = "properties"
             entries == IF full THEN schema.properties ELSE schema.items
             error(i) == IF full THEN property_error(entries[i])
                         ELSE shorthand_item_error(entries[i])
             invalid == {i \in DOMAIN entries : error(i) # <<>>}
         IN IF invalid = {} THEN <<>>
            ELSE error(CHOOSE k \in invalid : \A j \in invalid : k <= j)

---------------------------------------------------------------------------
(* Helpers of the client *)

\* LLMConfig.get_model_for_task
get_model_for_task(cfg, task_type) ==
    IF /\ task_type \in DOMAIN cfg.specialized_models
       /\ cfg.specialized_models[task_type].enabled
    THEN cfg.specialized_models[task_type]
    ELSE cfg.primary_model

\* mutant: the task table consulted before the per-call override
select_model_task_first(cfg, r) ==
    IF r.task_type # "" THEN get_model_for_task(cfg, r.task_type)
    ELSE IF r.model_config # <<>> THEN r.model_config[1]
    ELSE cfg.primary_model

\* the selection at the head of generate and generate_structured:
\* explicit model_config, else task_type, else the primary
select_model(cfg, r) ==
    IF r.model_config # <<>> THEN r.model_config[1]
    ELSE IF r.task_type # "" THEN get_model_for_task(cfg, r.task_type)
    ELSE cfg.primary_model

\* mutant: the lookup without the test of enable_caching
_get_cached_response_always(cfg, files, key) ==
    IF key \in DOMAIN files THEN <<files[key].content>>
    ELSE <<>>

\* mutant: the budget check without the estimate
_check_budget_spent_only(cfg, spent) ==
    IF ~cfg.enable_cost_tracking THEN TRUE
    ELSE ~(spent > cfg.max_cost_per_scan)

\* LLMClient._check_budget (with the default estimate)
_check_budget(cfg, spent) ==
    IF ~cfg.enable_cost_tracking THEN TRUE
    ELSE ~(spent + EstimatedCost > cfg.max_cost_per_scan)

\* LLMClient._get_cache_key: the string that is hashed
_get_cache_key(prompt, system_prompt, model) ==
    model \o ":" \o system_prompt \o ":" \o prompt

\* LLMClient._get_cached_response: <<>> is None, <<c>> the stored content
_get_cached_response(cfg, files, key) ==
    IF ~cfg.enable_caching THEN <<>>
    ELSE IF key \in DOMAIN files THEN <<files[key].content>>
    ELSE <<>>

\* the truth value Python gives an Optional[str]
truthy(opt) == opt # <<>> /\ opt[1] # ""

\* LLMClient._save_to_cache
_save_to_cache(cfg, files, key, response) ==
    IF ~cfg.enable_caching THEN files
    ELSE (key :> [content |-> response.content, model |-> response.model,
                  provider |-> response.provider,
                  tokens_used |-> response.tokens_used])
         @@ files

\* the key of LLMClient._get_provider
provider_key(m) == m.provider \o ":" \o m.model_name

\* LLMClient._get_provider: the registry after the lookup
_get_provider(registry, m) ==
    IF provider_key(m) \in DOMAIN registry THEN registry
    ELSE (provider_key(m) :> [config |-> m, total_tokens |-> 0, total_cost |-> 0])
         @@ registry

\* mutant: the adapter's cost counter assigned instead of accumulated
track_usage_assign(registry, key, tokens, cost) ==
    [registry EXCEPT ![key].total_tokens = @ + tokens,
                     ![key].total_cost = cost]

\* LLMProvider.track_usage
track_usage(registry, key, tokens, cost) ==
    [registry EXCEPT ![key].total_tokens = @ + tokens,
                     ![key].total_cost = @ + cost]

\* mutant: no estimate from the descriptor's rate when no cost is reported
generate_cost_reported_only(pcfg, reply) ==
    IF reply.has_cost /\ reply.response_cost # <<>> THEN reply.response_cost[1]
    ELSE 0

\* the cost LiteLLMProvider.generate reports for a successful reply
generate_cost(pcfg, reply) ==
    IF reply.has_cost
    THEN (IF reply.response_cost = <<>> THEN 0 ELSE reply.response_cost[1])
    ELSE reply.tokens * pcfg.cost_per_1k_tokens

\* the cost LiteLLMProvider.generate_structured estimates
structured_cost(pcfg, reply) == reply.tokens * pcfg.cost_per_1k_tokens

\* mutant: the eligible fallbacks collected in reverse order
RECURSIVE filter_fallbacks_reversed(_, _)
filter_fallbacks_reversed(selected, fallbacks) ==
    IF fallbacks = <<>> THEN <<>>
    ELSE LET fallback == Head(fallbacks)
             rest == filter_fallbacks_reversed(selected, Tail(fallbacks))
         IN IF ~fallback.enabled THEN rest
            ELSE IF is_local(selected) = is_local(fallback)
                    /\ fallback.model_name # selected.model_name
                 THEN rest \o <<fallback>>
                 ELSE rest

\* the candidate list: the selected model, then the enabled fallbacks of
\* its tier with another model name, in policy order
RECURSIVE filter_fallbacks(_, _)
filter_fallbacks(selected, fallbacks) ==
    IF fallbacks = <<>> THEN <<>>
    ELSE LET fallback == Head(fallbacks)
             rest == filter_fallbacks(selected, Tail(fallbacks))
         IN IF ~fallback.enabled THEN rest
            ELSE IF is_local(selected) = is_local(fallback)
                    /\ fallback.model_name # selected.model_name
                 THEN <<fallback>> \o rest
                 ELSE rest

\* mutant: the eligible fallbacks appended twice
build_models_to_try_twice(cfg, selected) ==
    IF cfg.enable_fallback
    THEN <<selected>> \o filter_fallbacks(selected, cfg.fallback_models)
                      \o filter_fallbacks(selected, cfg.fallback_models)
    ELSE <<selected>>

build_models_to_try(cfg, selected) ==
    IF cfg.enable_fallback
    THEN <<selected>> \o filter_fallbacks(selected, cfg.fallback_models)
    ELSE <<selected>>

\* mutant: the loop control without the skip of disabled candidates
RECURSIVE enter_from_no_skip(_, _, _, _)
enter_from_no_skip(cfg, models, i, cnt) ==
    IF i > Len(models) THEN [model_idx |-> i, attempts_count |-> cnt]
    ELSE IF cfg.max_retries > 0 THEN [model_idx |-> i, attempts_count |-> cnt + 1]
    ELSE enter_from_no_skip(cfg, models, i + 1, cnt + 1)

\* the control of the two nested loops: from candidate index i on, the
\* first position where an adapter call is due, with the candidates entered
\* counted (a disabled candidate is skipped, a candidate with no attempt to
\* make is entered and left)
RECURSIVE enter_from(_, _, _, _)
enter_from(cfg, models, i, cnt) ==
    IF i > Len(models) THEN [model_idx |-> i, attempts_count |-> cnt]
    ELSE IF ~models[i].enabled THEN enter_from(cfg, models, i + 1, cnt)
    ELSE IF cfg.max_retries > 0 THEN [model_idx |-> i, attempts_count |-> cnt + 1]
    ELSE enter_from(cfg, models, i + 1, cnt + 1)

\* mutant: a constant delay instead of the exponential backoff
backoff_delay_constant(cfg, n) == cfg.retry_delay

\* the delay slept after failed attempt n
backoff_delay(cfg, n) == cfg.retry_delay * Pow2(n)

\* the exception a handler body raises on timestamps it cannot subtract
CallbackError ==
    [type |-> "TypeError",
     text |-> "unsupported operand type(s) for -: 'NoneType' and 'NoneType'"]

\* str.lower() on a text
UpperCase == "ABCDEFGHIJKLMNOPQRSTUVWXYZ"
LowerCase == "abcdefghijklmnopqrstuvwxyz"

char_lower(c) ==
    LET hits == {i \in 1..Len(UpperCase) : SubSeq(UpperCase, i, i) = c}
    IN IF hits = {} THEN c
       ELSE LET i == CHOOSE h \in hits : TRUE IN SubSeq(LowerCase, i, i)

RECURSIVE str_lower_range(_, _, _)
str_lower_range(s, lo, hi) ==
    IF lo > hi THEN ""
    ELSE IF lo = hi THEN char_lower(SubSeq(s, lo, lo))
    ELSE LET mid == (lo + hi) \div 2
         IN str_lower_range(s, lo, mid) \o str_lower_range(s, mid + 1, hi)

str_lower(s) == str_lower_range(s, 1, Len(s))

\* Python's `sub in s` on texts
in_str(sub, s) ==
    \E i \in 1..(Len(s) - Len(sub) + 1) : SubSeq(s, i, i + Len(sub) - 1) = sub

\* mutant: the string-based detection without lower-casing
quota_text_cased(text) ==
    \/ in_str("429", text)
    \/ in_str("quota exceeded", text)
    \/ in_str("quota", text) /\ in_str("exceeded", text)
    \/ in_str("rate limit", text)
    \/ in_str("generate_content_free_tier", text)

\* the string-based detection of _is_quota_error
quota_text(text) ==
    LET error_str == str_lower(text)
    IN \/ in_str("429", error_str)
       \/ in_str("quota exceeded", error_str)
       \/ in_str("quota", error_str) /\ in_str("exceeded", error_str)
       \/ in_str("rate limit", error_str)
       \/ in_str("generate_content_free_tier", error_str)

\* the texts of the exceptions classified outside a dispatch
QuotaSampleTexts ==
    {"HTTP error 429: Too Many Requests", "API quota exceeded for this month",
     "Rate limit reached, please try again later",
     "Quota exceeded for: generate_content_free_tier_input_token_count",
     "QUOTA EXCEEDED", "quota exceeded", "Quota Exceeded",
     "Your quota has been exceeded", "Connection timeout", "Invalid API key",
     "Model not found", "Internal server error", "Network unreachable",
     "Connection timeout limit exceeded", "Maximum retries limit reached",
     "Token limit in prompt exceeded (reduce prompt size)",
     "'code': 'rate_limit_exceeded'", "GENERATE_CONTENT_FREE_TIER",
     "exceeded", "Quota", "RATE LIMIT", "rate  limit", "status 4290", "42 9", ""}

\* the exceptions classified outside a dispatch (litellm.RateLimitError,
\* another litellm exception, a plain Exception)
QuotaSamples ==
    {[type |-> t, text |-> x] :
        t \in {"RateLimitError", "Timeout", "Exception"}, x \in QuotaSampleTexts}

\* every exception the model raises or classifies
Raisable ==
    Errors \cup {CallbackError} \cup QuotaSamples
    \cup UNION {Range(_dict_schema_to_pydantic(r.schema)) : r \in Requests}

\* the string-based detection on the texts of those exceptions, evaluated once
quota_text_of == [text \in {e.text : e \in Raisable} |-> quota_text(text)]

\* _is_quota_error
_is_quota_error(e) ==
    \/ e.type = "RateLimitError"
    \/ quota_text_of[e.text]

\* the characters of the class [a-zA-Z0-9-_]
KeyChars ==
    LET class == "abcdefghijklmnopqrstuvwxyzABCDEFGHIJKLMNOPQRSTUVWXYZ0123456789-_"
    IN {SubSeq(class, i, i) : i \in 1..Len(class)}

\* the repetition {20,} of the two patterns
MinKeyChars == 20

\* the length of the longest run of key characters of s that starts at i
key_run(s, i) ==
    LET stops == {j \in i..Len(s) : SubSeq(s, j, j) \notin KeyChars}
    IN IF stops = {} THEN Len(s) - i + 1
       ELSE (CHOOSE j \in stops : \A k \in stops : j <= k) - i

\* whether prefix[a-zA-Z0-9-_]{20,} matches s at position i
key_at(prefix, s, i) ==
    /\ i + Len(prefix) - 1 <= Len(s)
    /\ SubSeq(s, i, i + Len(prefix) - 1) = prefix
    /\ key_run(s, i + Len(prefix)) >= MinKeyChars

\* re.sub(prefix[a-zA-Z0-9-_]{20,}, '[REDACTED-API-KEY]', s), from i on:
\* the leftmost match, as long as it can be, then the rest of the text
RECURSIVE re_sub(_, _, _)
re_sub(prefix, s, i) ==
    LET matches == {j \in i..Len(s) : key_at(prefix, s, j)}
    IN IF matches = {} THEN SubSeq(s, i, Len(s))
       ELSE LET j == CHOOSE m \in matches : \A k \in matches : m <= k
                end == j + Len(prefix) + key_run(s, j + Len(prefix))
            IN SubSeq(s, i, j - 1) \o "[REDACTED-API-KEY]" \o re_sub(prefix, s, end)

\* _sanitize_log_message
_sanitize_log_message(msg) == re_sub("pk-", re_sub("sk-", msg, 1), 1)

\* _get_quota_guidance
_get_quota_guidance(model_name, provider) ==
    IF lower(provider) \in {"gemini", "google"}
    THEN "\n-> Google Gemini quota/rate limit exceeded"
    ELSE IF lower(provider) = "openai" THEN "\n-> OpenAI rate limit exceeded"
    ELSE IF lower(provider) = "anthropic" THEN "\n-> Anthropic rate limit exceeded"
    ELSE IF lower(provider) = "ollama" THEN "\n-> Ollama server limit exceeded"
    ELSE "\n-> " \o provider \o " rate limit exceeded"

\* the line generate_structured passes to the sanitizer for failed attempt n
structured_failure_line(n, e) ==
    "Structured generation attempt " \o ToString(n + 1) \o " failed: " \o e.text

\* the texts the retry loops and the exhaustion message sanitize
SanitizedTexts ==
    LET raised == Raisable \ QuotaSamples
    IN {e.text : e \in raised}
       \cup {structured_failure_line(n, e) : n \in 0..(MaxRetries - 1), e \in raised}

\* _sanitize_log_message on those texts, evaluated once
sanitized == [msg \in SanitizedTexts |-> _sanitize_log_message(msg)]

\* the lines the logger receives while one failed adapter call is handled:
\* the adapter's own line, then the lines of the client's except branch
failure_log(cfg, kind, model, n, reply) ==
    LET e == reply.error[1]
        name == model.provider \o "/" \o model.model_name
        adapter == IF ~reply.called THEN <<>>
                   ELSE IF kind = "generate"
                   THEN <<"LiteLLM completion failed: " \o e.text>>
                   ELSE <<"Structured generation failed: " \o e.text>>
        quota == IF _is_quota_error(e)
                 THEN <<"Quota error for " \o name \o ":"
                        \o _get_quota_guidance(model.model_name, model.provider)>>
                 ELSE <<>>
        failed == IF kind = "generate"
                  THEN "Attempt " \o ToString(n + 1) \o "/"
                       \o ToString(cfg.max_retries) \o " failed for " \o name
                       \o ": " \o sanitized[e.text]
                  ELSE sanitized[structured_failure_line(n, e)]
        retrying == IF n < cfg.max_retries - 1
                    THEN <<"Retrying in " \o ToString(backoff_delay(cfg, n)) \o "s...">>
                    ELSE IF kind = "generate"
                    THEN <<"All attempts failed for " \o name
                           \o ", trying next model...">>
                    ELSE <<>>
    IN adapter \o quota \o <<failed>> \o retrying


---------------------------------------------------------------------------
(* The state after LLMClient.__init__ *)

NoRequest ==
    [kind |-> "", prompt |-> "", system_prompt |-> "", task_type |-> "",
     model_config |-> <<>>, schema |-> NoSchema]

NoResult == [kind |-> "none"]

Snapshot ==
    [total_cost |-> total_cost, request_count |-> request_count,
     cache |-> cache, providers |-> providers]

NoSnapshot ==
    [total_cost |-> 0, request_count |-> 0, cache |-> <<>>, providers |-> <<>>]

\* the policy whose adapter calls are made with an observer that may fail
ObservedPolicies ==
    {Policy(RemoteA, <<RemoteB>>, [t \in {} |-> NoModel], TRUE, 2, TRUE, TRUE)}

\* whether the body of the observer's handler raises during an adapter call
ObserverFaults(cfg) == IF cfg \in ObservedPolicies THEN BOOLEAN ELSE {FALSE}

\* the line of the except branch of the two handlers
CallbackErrorLine ==
    "[LiteLLM] Callback error (non-fatal): " \o _sanitize_log_message(CallbackError.text)

\* mutant: log_success_event without its try/except
log_success_event_unguarded(fault) ==
    IF fault THEN [propagated |-> <<CallbackError>>, line |-> ""]
    ELSE [propagated |-> <<>>, line |-> "[LiteLLM] Success"]

\* RaptorLLMLogger.log_success_event: what leaves the handler (<<>>: it
\* returns) and the line it logs
log_success_event(fault) ==
    IF fault THEN [propagated |-> <<>>, line |-> CallbackErrorLine]
    ELSE [propagated |-> <<>>, line |-> "[LiteLLM] Success"]

\* RaptorLLMLogger.log_failure_event
log_failure_event(fault) ==
    IF fault THEN [propagated |-> <<>>, line |-> CallbackErrorLine]
    ELSE [propagated |-> <<>>, line |-> "[LiteLLM] Failure"]

\* what one adapter call yields: the backend's reply after the observer has
\* been notified of it; an exception leaving the handler replaces the reply
observed(reply, fault) ==
    LET seen == IF reply.ok THEN log_success_event(fault)
                ELSE log_failure_event(fault)
        raised == seen.propagated # <<>>
    IN [ok |-> reply.ok /\ ~raised,
        called |-> TRUE,
        content |-> IF raised THEN "" ELSE reply.content,
        tokens |-> IF raised THEN 0 ELSE reply.tokens,
        has_cost |-> reply.has_cost /\ ~raised,
        response_cost |-> IF raised THEN <<>> ELSE reply.response_cost,
        error |-> IF raised THEN seen.propagated ELSE reply.error,
        backend_ok |-> reply.ok,
        observer_fault |-> fault,
        observer_line |-> seen.line]

AdapterOutcomes(cfg) ==
    {observed(reply, fault) : reply \in Replies, fault \in ObserverFaults(cfg)}

\* the files an earlier client left in config.cache_dir: none, or (for the
\* policies that serve a sequence of dispatches) the entry of ("A", "", "p")
PriorEntry ==
    _get_cache_key("p", "", "A")
        :> [content |-> "old", model |-> "A", provider |-> "openai", tokens_used |-> 1]

InitialCaches(cfg) ==
    IF cfg \in SequencePolicies THEN {<<>>, PriorEntry} ELSE {<<>>}

\* a RaptorLLMLogger object, and a callback object of another owner
RaptorLLMLogger(id) == [class |-> "RaptorLLMLogger", id |-> id]
ForeignCallback(id) == [class |-> "Foreign", id |-> id]

\* the process after the first LLMClient has been constructed
OneClientConstructed ==
    /\ callbacks = <<RaptorLLMLogger(1)>>
    /\ _raptor_llm_logger_instance = <<RaptorLLMLogger(1)>>
    /\ loggers_created = 1
    /\ constructed = 1

\* no helper is being called on its own
PureIdle == call_args = <<>> /\ call_result = <<>>

NoThreads == clients = <<>> /\ cache_dirs = <<>> /\ threads = <<>>

OthersIdle == OneClientConstructed /\ PureIdle /\ NoThreads

Init ==
    /\ OthersIdle
    /\ config \in Policies
    /\ total_cost = 0
    /\ request_count = 0
    /\ providers = <<>>
    /\ cache \in InitialCaches(config)
    /\ pc = "idle"
    /\ req = NoRequest
    /\ model_config = NoModel
    /\ cache_key = ""
    /\ models_to_try = <<>>
    /\ model_idx = 0
    /\ attempt = 0
    /\ attempts_count = 0
    /\ last_error = <<>>
    /\ result = NoResult
    /\ trace = <<>>
    /\ adapter_calls = <<>>
    /\ sleeps = <<>>
    /\ log_lines = <<>>
    /\ start = NoSnapshot
    /\ dispatches = 0

---------------------------------------------------------------------------
(* A dispatch begins: budget check, selection, cache lookup, candidates *)

\* what every dispatch records when it starts
Begin(r) ==
    /\ pc \in {"idle", "done"}
    /\ dispatches < CallsFor(config)
    /\ dispatches' = dispatches + 1
    /\ req' = r
    /\ start' = Snapshot
    /\ adapter_calls' = <<>>
    /\ sleeps' = <<>>
    /\ log_lines' = <<>>
    /\ UNCHANGED <<config, total_cost, providers, cache, others>>

\* the dispatch raises the budget error at its first statement
BudgetDenied ==
    /\ pc' = "done"
    /\ result' = [kind |-> "budget_exceeded"]
    /\ model_config' = NoModel
    /\ cache_key' = ""
    /\ models_to_try' = <<>>
    /\ model_idx' = 0
    /\ attempt' = 0
    /\ attempts_count' = 0
    /\ last_error' = <<>>
    /\ UNCHANGED request_count

\* the dispatch enters the candidate loop with the list `models`
EnterLoop(selected, key, models) ==
    LET e == enter_from(config, models, 1, 0) IN
    /\ pc' = "trying"
    /\ result' = NoResult
    /\ model_config' = selected
    /\ cache_key' = key
    /\ models_to_try' = models
    /\ model_idx' = e.model_idx
    /\ attempt' = 0
    /\ attempts_count' = e.attempts_count
    /\ last_error' = <<>>
    /\ UNCHANGED request_count

\* mutant: the cached response billed like a fresh one of one token unit
cached_response_billed(selected, content) ==
    [kind |-> "response", content |-> content,
     model |-> selected.model_name, provider |-> selected.provider,
     tokens_used |-> 1, cost |-> selected.cost_per_1k_tokens,
     finish_reason |-> "cached"]

\* the LLMResponse generate returns on a cache hit
cached_response(selected, content) ==
    [kind |-> "response", content |-> content,
     model |-> selected.model_name, provider |-> selected.provider,
     tokens_used |-> 0, cost |-> 0,
     finish_reason |-> "cached"]

\* generate, up to the candidate loop
Generate(r) ==
    /\ r.kind = "generate"
    /\ Begin(r)
    /\ IF ~_check_budget(config, total_cost)
       THEN /\ BudgetDenied
            /\ trace' = <<"check_budget", "raise">>
       ELSE LET selected == select_model(config, r)
                key == _get_cache_key(r.prompt, r.system_prompt, selected.model_name)
                cached_content == _get_cached_response(config, cache, key)
            IN IF truthy(cached_content)
               THEN /\ request_count' = request_count + 1
                    /\ result' = cached_response(selected, cached_content[1])
                    /\ pc' = "done"
                    /\ model_config' = selected
                    /\ cache_key' = key
                    /\ models_to_try' = <<>>
                    /\ model_idx' = 0
                    /\ attempt' = 0
                    /\ attempts_count' = 0
                    /\ last_error' = <<>>
                    /\ trace' = <<"check_budget", "cache_lookup", "return">>
               ELSE /\ EnterLoop(selected, key, build_models_to_try(config, selected))
                    /\ trace' = <<"check_budget", "cache_lookup">>

\* generate_structured, up to the candidate loop (it computes no cache key)
GenerateStructured(r) ==
    /\ r.kind = "generate_structured"
    /\ Begin(r)
    /\ IF ~_check_budget(config, total_cost)
       THEN /\ BudgetDenied
            /\ trace' = <<"check_budget", "raise">>
       ELSE LET selected == select_model(config, r)
            IN /\ EnterLoop(selected, "", build_models_to_try(config, selected))
               /\ trace' = <<"check_budget">>

---------------------------------------------------------------------------
(* One pass through the body of the retry loop *)

\* mutant: the except branch leaves the retry loop after the first failure
AttemptFailed_no_retry(registry, model, reply) ==
    LET e == enter_from(config, models_to_try, model_idx + 1, attempts_count) IN
    /\ providers' = registry
    /\ last_error' = reply.error
    /\ log_lines' = failure_log(config, req.kind, model, attempt, reply)
    /\ adapter_calls' = Append(adapter_calls,
           [model |-> model, used |-> registry[provider_key(model)].config,
            model_idx |-> model_idx, attempt |-> attempt, ok |-> FALSE,
            cost |-> 0, network |-> reply.called,
            backend_ok |-> reply.backend_ok,
            observer_fault |-> reply.observer_fault,
            observer_line |-> reply.observer_line,
            has_cost |-> reply.has_cost,
            response_cost |-> reply.response_cost])
    /\ model_idx' = e.model_idx
    /\ attempts_count' = e.attempts_count
    /\ attempt' = 0
    /\ trace' = Append(trace, "adapter")
    /\ UNCHANGED <<sleeps, total_cost, request_count, cache, pc, result>>

\* mutant: the except branch gives up the candidate on a quota error
AttemptFailed_quota_gives_up(registry, model, reply) ==
    /\ providers' = registry
    /\ last_error' = reply.error
    /\ log_lines' = failure_log(config, req.kind, model, attempt, reply)
    /\ adapter_calls' = Append(adapter_calls,
           [model |-> model, used |-> registry[provider_key(model)].config,
            model_idx |-> model_idx, attempt |-> attempt, ok |-> FALSE,
            cost |-> 0, network |-> reply.called,
            backend_ok |-> reply.backend_ok,
            observer_fault |-> reply.observer_fault,
            observer_line |-> reply.observer_line,
            has_cost |-> reply.has_cost,
            response_cost |-> reply.response_cost])
    /\ IF attempt < config.max_retries - 1 /\ ~_is_quota_error(reply.error[1])
       THEN /\ sleeps' = Append(sleeps,
                   [model_idx |-> model_idx, attempt |-> attempt,
                    delay |-> backoff_delay(config, attempt)])
            /\ trace' = trace \o <<"adapter", "sleep">>
            /\ attempt' = attempt + 1
            /\ UNCHANGED <<model_idx, attempts_count>>
       ELSE LET e == enter_from(config, models_to_try, model_idx + 1, attempts_count)
            IN /\ model_idx' = e.model_idx
               /\ attempts_count' = e.attempts_count
               /\ attempt' = 0
               /\ trace' = Append(trace, "adapter")
               /\ UNCHANGED sleeps
    /\ UNCHANGED <<total_cost, request_count, cache, pc, result>>

\* mutant: the except branch counts the failed attempt as a request
AttemptFailed_counted(registry, model, reply) ==
    /\ providers' = registry
    /\ last_error' = reply.error
    /\ log_lines' = failure_log(config, req.kind, model, attempt, reply)
    /\ adapter_calls' = Append(adapter_calls,
           [model |-> model, used |-> registry[provider_key(model)].config,
            model_idx |-> model_idx, attempt |-> attempt, ok |-> FALSE,
            cost |-> 0, network |-> reply.called,
            backend_ok |-> reply.backend_ok,
            observer_fault |-> reply.observer_fault,
            observer_line |-> reply.observer_line,
            has_cost |-> reply.has_cost,
            response_cost |-> reply.response_cost])
    /\ IF attempt < config.max_retries - 1
       THEN /\ sleeps' = Append(sleeps,
                   [model_idx |-> model_idx, attempt |-> attempt,
                    delay |-> backoff_delay(config, attempt)])
            /\ trace' = trace \o <<"adapter", "sleep">>
            /\ attempt' = attempt + 1
            /\ UNCHANGED <<model_idx, attempts_count>>
       ELSE LET e == enter_from(config, models_to_try, model_idx + 1, attempts_count)
            IN /\ model_idx' = e.model_idx
               /\ attempts_count' = e.attempts_count
               /\ attempt' = 0
               /\ trace' = Append(trace, "adapter")
               /\ UNCHANGED sleeps
    /\ request_count' = request_count + 1
    /\ UNCHANGED <<total_cost, cache, pc, result>>

\* mutant: the except branch sleeps after the last attempt as well
AttemptFailed_always_sleeps(registry, model, reply) ==
    /\ providers' = registry
    /\ last_error' = reply.error
    /\ log_lines' = failure_log(config, req.kind, model, attempt, reply)
    /\ adapter_calls' = Append(adapter_calls,
           [model |-> model, used |-> registry[provider_key(model)].config,
            model_idx |-> model_idx, attempt |-> attempt, ok |-> FALSE,
            cost |-> 0, network |-> reply.called,
            backend_ok |-> reply.backend_ok,
            observer_fault |-> reply.observer_fault,
            observer_line |-> reply.observer_line,
            has_cost |-> reply.has_cost,
            response_cost |-> reply.response_cost])
    /\ IF attempt < config.max_retries - 1
       THEN /\ sleeps' = Append(sleeps,
                   [model_idx |-> model_idx, attempt |-> attempt,
                    delay |-> backoff_delay(config, attempt)])
            /\ trace' = trace \o <<"adapter", "sleep">>
            /\ attempt' = attempt + 1
            /\ UNCHANGED <<model_idx, attempts_count>>
       ELSE LET e == enter_from(config, models_to_try, model_idx + 1, attempts_count)
            IN /\ model_idx' = e.model_idx
               /\ attempts_count' = e.attempts_count
               /\ attempt' = 0
               /\ trace' = trace \o <<"adapter", "sleep">>
               /\ sleeps' = Append(sleeps,
                      [model_idx |-> model_idx, attempt |-> attempt,
                       delay |-> backoff_delay(config, attempt)])
    /\ UNCHANGED <<total_cost, request_count, cache, pc, result>>

\* the except branch: remember the error, back off, move on
AttemptFailed(registry, model, reply) ==
    /\ providers' = registry
    /\ last_error' = reply.error
    /\ log_lines' = failure_log(config, req.kind, model, attempt, reply)
    /\ adapter_calls' = Append(adapter_calls,
           [model |-> model, used |-> registry[provider_key(model)].config,
            model_idx |-> model_idx, attempt |-> attempt, ok |-> FALSE,
            cost |-> 0, network |-> reply.called,
            backend_ok |-> reply.backend_ok,
            observer_fault |-> reply.observer_fault,
            observer_line |-> reply.observer_line,
            has_cost |-> reply.has_cost,
            response_cost |-> reply.response_cost])
    /\ IF attempt < config.max_retries - 1
       THEN /\ sleeps' = Append(sleeps,
                   [model_idx |-> model_idx, attempt |-> attempt,
                    delay |-> backoff_delay(config, attempt)])
            /\ trace' = trace \o <<"adapter", "sleep">>
            /\ attempt' = attempt + 1
            /\ UNCHANGED <<model_idx, attempts_count>>
       ELSE LET e == enter_from(config, models_to_try, model_idx + 1, attempts_count)
            IN /\ model_idx' = e.model_idx
               /\ attempts_count' = e.attempts_count
               /\ attempt' = 0
               /\ trace' = Append(trace, "adapter")
               /\ UNCHANGED sleeps
    /\ UNCHANGED <<total_cost, request_count, cache, pc, result>>

\* the try body of generate: adapter call, ledger, cache, return
GenerateAttempt ==
    /\ pc = "trying"
    /\ req.kind = "generate"
    /\ model_idx <= Len(models_to_try)
    /\ LET model == models_to_try[model_idx]
           key == provider_key(model)
           registry == _get_provider(providers, model)
           pcfg == registry[key].config
       IN \E reply \in AdapterOutcomes(config) :
            IF reply.ok
            THEN LET cost == generate_cost(pcfg, reply)
                     response == [kind |-> "response",
                                  content |-> reply.content,
                                  model |-> pcfg.model_name,
                                  provider |-> lower(pcfg.provider),
                                  tokens_used |-> reply.tokens,
                                  cost |-> cost,
                                  finish_reason |-> "complete"]
                 IN /\ providers' = track_usage(registry, key, reply.tokens, cost)
                    /\ total_cost' = total_cost + response.cost
                    /\ request_count' = request_count + 1
                    /\ cache' = _save_to_cache(config, cache, cache_key, response)
                    /\ result' = response
                    /\ pc' = "done"
                    /\ adapter_calls' = Append(adapter_calls,
                           [model |-> model, used |-> pcfg, model_idx |-> model_idx,
                            attempt |-> attempt, ok |-> TRUE, cost |-> cost,
                            network |-> TRUE, backend_ok |-> reply.backend_ok,
                            observer_fault |-> reply.observer_fault,
                            observer_line |-> reply.observer_line,
                            has_cost |-> reply.has_cost,
                            response_cost |-> reply.response_cost])
                    /\ trace' = trace \o
                           (IF config.enable_caching
                            THEN <<"adapter", "ledger", "cache_write", "return">>
                            ELSE <<"adapter", "ledger", "return">>)
                    /\ UNCHANGED <<model_idx, attempt, attempts_count,
                                   last_error, sleeps, log_lines>>
            ELSE AttemptFailed(registry, model, reply)
    /\ UNCHANGED <<config, req, model_config, cache_key, models_to_try,
                   start, dispatches, others>>

\* the try body of generate_structured: the cost is the adapter's delta
\* (an estimate: the adapter does not read a cost the backend reports)
StructuredAttempt ==
    /\ pc = "trying"
    /\ req.kind = "generate_structured"
    /\ model_idx <= Len(models_to_try)
    /\ LET model == models_to_try[model_idx]
           key == provider_key(model)
           registry == _get_provider(providers, model)
           pcfg == registry[key].config
           cost_before == registry[key].total_cost
           schema_error == _dict_schema_to_pydantic(req.schema)
       IN \E reply \in IF schema_error # <<>>
                        THEN {RaisedBeforeCall(schema_error[1])}
                        ELSE AdapterOutcomes(config) :
            IF reply.ok
            THEN LET after == track_usage(registry, key, reply.tokens,
                                          structured_cost(pcfg, reply))
                     cost_delta == after[key].total_cost - cost_before
                 IN /\ providers' = after
                    /\ total_cost' = total_cost + cost_delta
                    /\ request_count' = request_count + 1
                    /\ result' = [kind |-> "structured", content |-> reply.content]
                    /\ pc' = "done"
                    /\ adapter_calls' = Append(adapter_calls,
                           [model |-> model, used |-> pcfg, model_idx |-> model_idx,
                            attempt |-> attempt, ok |-> TRUE,
                            cost |-> structured_cost(pcfg, reply),
                            network |-> TRUE, backend_ok |-> reply.backend_ok,
                            observer_fault |-> reply.observer_fault,
                            observer_line |-> reply.observer_line,
                            has_cost |-> FALSE,
                            response_cost |-> <<>>])
                    /\ trace' = trace \o <<"adapter", "ledger", "return">>
                    /\ UNCHANGED <<cache, model_idx, attempt, attempts_count,
                                   last_error, sleeps, log_lines>>
            ELSE AttemptFailed(registry, model, reply)
    /\ UNCHANGED <<config, req, model_config, cache_key, models_to_try,
                   start, dispatches, others>>

---------------------------------------------------------------------------
(* Every candidate is exhausted: the aggregated error *)

\* the troubleshooting tip of a tier
tier_tip(tier) ==
    IF tier = "local (Ollama)"
    THEN "\n-> Check Ollama server: http://localhost:11434/api/tags"
    ELSE "\n-> Check API keys and network connectivity"

\* error_msg of the RuntimeError raised after the candidate loop
exhausted_message(kind, selected, tier, tried, last) ==
    (IF kind = "generate"
     THEN "All " \o tier \o " models failed"
     ELSE "Structured generation failed for all " \o tier \o " models")
    \o " (tried " \o ToString(tried) \o " model(s))."
    \o (IF last # <<>> /\ _is_quota_error(last[1])
        THEN _get_quota_guidance(selected.model_name, selected.provider)
             \o "\nProvider message: " \o sanitized[last[1].text]
        ELSE IF last # <<>>
        THEN "\nLast error: " \o sanitized[last[1].text] \o tier_tip(tier)
        ELSE "\nNo enabled models available in this tier." \o tier_tip(tier))

exhausted_error(kind, selected, tried, last) ==
    LET tier == IF lower(selected.provider) = "ollama" THEN "local (Ollama)" ELSE "cloud"
    IN [kind |-> "exhausted",
        tier |-> tier,
        tried |-> tried,
        detail |-> IF last # <<>> /\ _is_quota_error(last[1]) THEN "quota"
                   ELSE IF last # <<>> THEN "last_error"
                   ELSE "no_enabled_models",
        message |-> exhausted_message(kind, selected, tier, tried, last)]

Exhausted ==
    /\ pc = "trying"
    /\ model_idx > Len(models_to_try)
    /\ result' = exhausted_error(req.kind, model_config, attempts_count, last_error)
    /\ pc' = "done"
    /\ trace' = Append(trace, "raise")
    /\ UNCHANGED <<config, total_cost, request_count, providers, cache, req,
                   locals, adapter_calls, sleeps, log_lines, start, dispatches,
                   others>>

---------------------------------------------------------------------------
(* LLMClient.reset_stats, called between dispatches *)

\* mutant: reset_stats without the loop over the adapters
reset_stats_client_only ==
    /\ pc \in {"idle", "done"}
    /\ total_cost' = 0
    /\ request_count' = 0
    /\ providers' = providers
    /\ pc' = "idle"
    /\ req' = NoRequest
    /\ model_config' = NoModel
    /\ cache_key' = ""
    /\ models_to_try' = <<>>
    /\ model_idx' = 0
    /\ attempt' = 0
    /\ attempts_count' = 0
    /\ last_error' = <<>>
    /\ result' = NoResult
    /\ trace' = <<>>
    /\ adapter_calls' = <<>>
    /\ sleeps' = <<>>
    /\ log_lines' = <<>>
    /\ start' = NoSnapshot
    /\ UNCHANGED <<config, cache, dispatches, others>>

\* mutant: reset_stats that also empties the cache directory
reset_stats_clears_cache ==
    /\ pc \in {"idle", "done"}
    /\ total_cost' = 0
    /\ request_count' = 0
    /\ providers' = [k \in DOMAIN providers |->
                        [providers[k] EXCEPT !.total_tokens = 0, !.total_cost = 0]]
    /\ pc' = "idle"
    /\ req' = NoRequest
    /\ model_config' = NoModel
    /\ cache_key' = ""
    /\ models_to_try' = <<>>
    /\ model_idx' = 0
    /\ attempt' = 0
    /\ attempts_count' = 0
    /\ last_error' = <<>>
    /\ result' = NoResult
    /\ trace' = <<>>
    /\ adapter_calls' = <<>>
    /\ sleeps' = <<>>
    /\ log_lines' = <<>>
    /\ start' = NoSnapshot
    /\ cache' = <<>>
    /\ UNCHANGED <<config, dispatches, others>>

\* the counters of the client and of its adapters are zeroed; the frame of
\* the last dispatch (locals and history) is gone, the cache files stay

reset_stats ==
    /\ pc \in {"idle", "done"}
    /\ total_cost' = 0
    /\ request_count' = 0
    /\ providers' = [k \in DOMAIN providers |->
                        [providers[k] EXCEPT !.total_tokens = 0, !.total_cost = 0]]
    /\ pc' = "idle"
    /\ req' = NoRequest
    /\ model_config' = NoModel
    /\ cache_key' = ""
    /\ models_to_try' = <<>>
    /\ model_idx' = 0
    /\ attempt' = 0
    /\ attempts_count' = 0
    /\ last_error' = <<>>
    /\ result' = NoResult
    /\ trace' = <<>>
    /\ adapter_calls' = <<>>
    /\ sleeps' = <<>>
    /\ log_lines' = <<>>
    /\ start' = NoSnapshot
    /\ UNCHANGED <<config, cache, dispatches, others>>

---------------------------------------------------------------------------

Next ==
    \/ \E r \in Requests : Generate(r)
    \/ \E r \in Requests : GenerateStructured(r)
    \/ GenerateAttempt
    \/ StructuredAttempt
    \/ Exhausted
    \/ reset_stats

Spec == Init /\ [][Next]_vars

---------------------------------------------------------------------------
(* Vocabulary of the properties *)

\* the tier of a descriptor, as the specification defines it
Tier(m) == IF lower(m.provider) = "ollama" THEN "local" ELSE "remote"

Done == pc = "done"
InDispatch == pc \in {"trying", "done"}
BudgetError == result.kind = "budget_exceeded"
ExhaustedError == result.kind = "exhausted"
CacheHit == result.kind = "response" /\ result.finish_reason = "cached"
AdapterSuccess ==
    \/ result.kind = "structured"
    \/ result.kind = "response" /\ result.finish_reason # "cached"

LastCall == adapter_calls[Len(adapter_calls)]

\* the positions of the policy's fallback list that are eligible for the
\* selected model: enabled, of its tier, with another model id
EligibleFallbacks(selected) ==
    IF config.enable_fallback
    THEN {i \in DOMAIN config.fallback_models :
            /\ config.fallback_models[i].enabled
            /\ Tier(config.fallback_models[i]) = Tier(selected)
            /\ config.fallback_models[i].model_name # selected.model_name}
    ELSE {}

\* N: the enabled same-tier candidates of the dispatch
EnabledCandidates(selected) ==
    (IF selected.enabled THEN 1 ELSE 0) + Cardinality(EligibleFallbacks(selected))

---------------------------------------------------------------------------
(* C1: when every adapter call of a generate dispatch fails, the dispatch   *)
(* raises the exhaustion error after exactly N * max_retries adapter       *)
(* invocations, N the number of enabled same-tier candidates; before it    *)
(* raises, a dispatch whose calls all failed has made at most that many.   *)
C1_ExhaustedAfterNTimesRetries ==
    (/\ InDispatch
     /\ req.kind = "generate"
     /\ \A i \in DOMAIN adapter_calls : ~adapter_calls[i].ok
     /\ ~BudgetError /\ ~CacheHit)
    =>
    LET n == EnabledCandidates(model_config) * config.max_retries IN
    /\ Len(adapter_calls) <= n
    /\ Done => (ExhaustedError /\ Len(adapter_calls) = n)
    /\ (pc = "trying" /\ Len(adapter_calls) = n) => ENABLED Exhausted

C1_Witness ==
    /\ Done /\ req.kind = "generate" /\ ExhaustedError
    /\ EnabledCandidates(model_config) = 3
    /\ config.max_retries = 2
    /\ Len(adapter_calls) = 6

(* C2: tier isolation.  Every adapter call of a dispatch is made for a      *)
(* candidate of the selected model's tier, through an adapter configured   *)
(* for that tier, whichever way the model was selected.                    *)
C2_TierIsolation ==
    \A i \in DOMAIN adapter_calls :
        /\ Tier(adapter_calls[i].model) = Tier(model_config)
        /\ Tier(adapter_calls[i].used) = Tier(model_config)

C2_Witness ==
    /\ Done
    /\ model_config = LocalA
    /\ config.fallback_models = <<RemoteB, LocalB>>
    /\ Len(adapter_calls) >= 2
    /\ LastCall.model = LocalB

(* C3: with cost tracking enabled, a dispatch that starts with              *)
(* total_cost + estimate > max_cost_per_scan raises the budget error at    *)
(* once: no adapter call, no sleep, and the ledger, the request count,     *)
(* the adapter registry and the cache are as they were.                    *)
C3_BudgetDenial ==
    (/\ InDispatch
     /\ config.enable_cost_tracking
     /\ start.total_cost + EstimatedCost > config.max_cost_per_scan)
    =>
    /\ Done /\ BudgetError
    /\ adapter_calls = <<>> /\ sleeps = <<>>
    /\ total_cost = start.total_cost
    /\ request_count = start.request_count
    /\ cache = start.cache
    /\ providers = start.providers

C3_Witness ==
    /\ Done /\ BudgetError
    /\ config.enable_cost_tracking
    /\ start.total_cost + EstimatedCost > config.max_cost_per_scan
    /\ req.kind = "generate"
    /\ DOMAIN cache # {}

(* C4: spend is capped.  With cost tracking enabled the ledger's            *)
(* cumulative cost never exceeds max_cost_per_scan.                        *)
C4_SpendCapped ==
    config.enable_cost_tracking => total_cost <= config.max_cost_per_scan

C6_CachedUnderProducingModel ==
    (/\ Done /\ req.kind = "generate" /\ AdapterSuccess
     /\ config.enable_caching)
    =>
    LET produced == _get_cache_key(req.prompt, req.system_prompt, result.model)
        selected == _get_cache_key(req.prompt, req.system_prompt,
                                   model_config.model_name)
    IN /\ produced \in DOMAIN cache
       /\ cache[produced].content = result.content
       /\ (result.model # model_config.model_name /\ selected \notin DOMAIN start.cache)
              => selected \notin DOMAIN cache

(* C7: idempotence.  With caching enabled, a generate whose key was written *)
(* by an earlier successful generate on the client, and which passes the   *)
(* budget check, makes no adapter call and returns the stored content,     *)
(* whatever that content is.                                               *)
C7_SecondCallServedFromCache ==
    (/\ InDispatch /\ req.kind = "generate" /\ ~BudgetError
     /\ config.enable_caching
     /\ cache_key \in DOMAIN start.cache)
    =>
    /\ Done /\ CacheHit
    /\ adapter_calls = <<>>
    /\ result.content = start.cache[cache_key].content

(* C8: a schema-constrained dispatch goes through the flow of a free-form   *)
(* one: after the budget check it looks the request up in the cache, and   *)
(* on success it updates the ledger and writes the response to the cache   *)
(* before it returns.                                                      *)
C8_StructuredFlowAsFreeForm ==
    (Done /\ req.kind = "generate_structured" /\ ~BudgetError)
    =>
    /\ Len(trace) >= 2
    /\ trace[1] = "check_budget"
    /\ trace[2] = "cache_lookup"
    /\ (AdapterSuccess /\ config.enable_caching)
          => /\ Len(trace) >= 4
             /\ SubSeq(trace, Len(trace) - 3, Len(trace))
                    = <<"adapter", "ledger", "cache_write", "return">>
             /\ cache # start.cache

(* C9: the adapter calls of a dispatch go candidate by candidate in the     *)
(* order of the candidate list: a call follows a failed call, either as    *)
(* the next attempt against the same candidate or, once max_retries        *)
(* attempts against it have failed, as attempt 0 against the next enabled  *)
(* candidate; a successful call is the last of the dispatch.               *)
C9_AttemptOrder ==
    \A i \in DOMAIN adapter_calls :
        LET c == adapter_calls[i] IN
        /\ c.model_idx \in DOMAIN models_to_try
        /\ c.model = models_to_try[c.model_idx]
        /\ c.attempt \in 0..(config.max_retries - 1)
        /\ i = 1 =>
              /\ c.attempt = 0
              /\ \A j \in 1..(c.model_idx - 1) : ~models_to_try[j].enabled
        /\ i > 1 =>
              LET b == adapter_calls[i - 1] IN
              /\ ~b.ok
              /\ \/ c.model_idx = b.model_idx /\ c.attempt = b.attempt + 1
                 \/ /\ c.model_idx > b.model_idx
                    /\ c.attempt = 0
                    /\ b.attempt = config.max_retries - 1
                    /\ \A j \in (b.model_idx + 1)..(c.model_idx - 1) :
                          ~models_to_try[j].enabled
        /\ c.ok => (i = Len(adapter_calls) /\ Done)

C9_Witness ==
    /\ Done /\ AdapterSuccess
    /\ config.max_retries = 2
    /\ Len(adapter_calls) = 3
    /\ [i \in 1..3 |-> adapter_calls[i].model.model_name] = <<"A", "A", "B">>
    /\ [i \in 1..3 |-> adapter_calls[i].ok] = <<FALSE, FALSE, TRUE>>

(* C10: the delay slept after failed attempt i against a candidate is       *)
(* base * 2^i, base the policy's retry delay; every failed attempt but     *)
(* the candidate's last is followed by such a sleep, and the delays        *)
(* against one candidate do not decrease.                                  *)
C10_BackoffDelays ==
    /\ \A i \in DOMAIN sleeps :
          sleeps[i].delay = config.retry_delay * (2 ^ sleeps[i].attempt)
    /\ \A i, j \in DOMAIN sleeps :
          (i < j /\ sleeps[i].model_idx = sleeps[j].model_idx)
              => /\ sleeps[i].attempt < sleeps[j].attempt
                 /\ sleeps[i].delay <= sleeps[j].delay
    /\ \A k \in DOMAIN adapter_calls :
          (~adapter_calls[k].ok /\ adapter_calls[k].attempt < config.max_retries - 1)
              => \E i \in DOMAIN sleeps :
                    /\ sleeps[i].model_idx = adapter_calls[k].model_idx
                    /\ sleeps[i].attempt = adapter_calls[k].attempt

C10_Witness ==
    /\ Len(sleeps) >= 2
    /\ sleeps[1].model_idx = sleeps[2].model_idx
    /\ sleeps[1].attempt = 0 /\ sleeps[1].delay = 2
    /\ sleeps[2].attempt = 1 /\ sleeps[2].delay = 4

(* C11: the backoff base delay is the tier's: a sleep after a failed        *)
(* attempt against a remote-tier candidate lasts retry_delay_remote * 2^i  *)
(* and one against a local-tier candidate retry_delay * 2^i.               *)
C11_TierBaseDelay ==
    \A i \in DOMAIN sleeps :
        LET candidate == models_to_try[sleeps[i].model_idx]
            baseDelay == IF Tier(candidate) = "remote"
                         THEN config.retry_delay_remote
                         ELSE config.retry_delay
        IN sleeps[i].delay = baseDelay * (2 ^ sleeps[i].attempt)

\* whether a text holds a secret token: sk- or pk- followed by 20 or more
\* key characters
HasSecret(text) ==
    \E i \in 1..Len(text) : key_at("sk-", text, i) \/ key_at("pk-", text, i)

(* C12: no log line emitted while a failed adapter attempt is handled, by   *)
(* the client or by the adapter, holds a secret token verbatim, even when  *)
(* the text of the underlying error holds one.                             *)
C12_NoSecretInFailureLog ==
    \A i \in DOMAIN log_lines : ~HasSecret(log_lines[i])

\* the dispatch in progress is a generate_structured call whose declaration
\* does not compile and which the budget check admitted
UncompilableDispatch ==
    /\ InDispatch
    /\ req.kind = "generate_structured"
    /\ _dict_schema_to_pydantic(req.schema) # <<>>
    /\ ~BudgetError

(* C16: a schema compilation failure short-circuits the dispatch:           *)
(* generate_structured called with a declaration that does not compile     *)
(* raises the schema error at once, with no network call, no retry, no     *)
(* backoff sleep and no fallback candidate tried.                          *)
C16_SchemaErrorShortCircuits ==
    UncompilableDispatch =>
        /\ sleeps = <<>>
        /\ Len(adapter_calls) <= 1
        /\ \A i \in DOMAIN adapter_calls : ~adapter_calls[i].network
        /\ Done => result.kind = "schema_error"

\* the dispatch in progress has passed the budget check and made its selection
Selected == InDispatch /\ ~BudgetError

(* C13 as stated: the selected model is the per-call override when one is  *)
(* given; otherwise the specialized descriptor configured for the task     *)
(* type when there is one; otherwise the policy's primary model.           *)
C13_SelectionPrecedence ==
    Selected =>
        model_config =
            IF req.model_config # <<>> THEN req.model_config[1]
            ELSE IF req.task_type \in DOMAIN config.specialized_models
                 THEN config.specialized_models[req.task_type]
                 ELSE config.primary_model

(* C13 amended: the selected model is the per-call override when one is    *)
(* given (enabled or not); otherwise the specialized descriptor configured *)
(* for the task type when there is one and it is enabled; otherwise the    *)
(* policy's primary model.                                                 *)
C13_SelectionPrecedenceEnabled ==
    Selected =>
        \/ /\ req.model_config # <<>>
           /\ model_config = req.model_config[1]
        \/ /\ req.model_config = <<>>
           /\ req.task_type \in DOMAIN config.specialized_models
           /\ config.specialized_models[req.task_type].enabled
           /\ model_config = config.specialized_models[req.task_type]
        \/ /\ req.model_config = <<>>
           /\ \/ req.task_type \notin DOMAIN config.specialized_models
              \/ ~config.specialized_models[req.task_type].enabled
           /\ model_config = config.primary_model

\* an override given together with a task type whose specialized
\* descriptor is enabled and another model: the override is selected
C13_Witness ==
    /\ Selected
    /\ req.model_config = <<RemoteA2>>
    /\ req.task_type = "exploit"
    /\ config.specialized_models = [t \in TaskTypes |-> RemoteB]
    /\ config.primary_model = LocalA
    /\ model_config = RemoteA2

\* the dispatch in progress has built its candidate list
ListBuilt == Selected /\ ~CacheHit

(* C14: the candidate list of a dispatch is the selected model followed by  *)
(* exactly the policy's fallback descriptors that are enabled, of the      *)
(* selected model's tier and of another model id, in the order of the      *)
(* policy's fallback list; with fallback disabled it is the selected model *)
(* alone.                                                                  *)
C14_CandidateList ==
    ListBuilt =>
        LET eligible == EligibleFallbacks(model_config)
            n == Len(models_to_try)
        IN /\ n = 1 + Cardinality(eligible)
           /\ models_to_try[1] = model_config
           /\ \E f \in [2..n -> eligible] :
                 /\ \A j, k \in 2..n : j < k => f[j] < f[k]
                 /\ \A k \in 2..n : models_to_try[k] = config.fallback_models[f[k]]
           /\ ~config.enable_fallback => models_to_try = <<model_config>>

\* two eligible fallbacks of different model ids keep the policy's order
C14_Witness ==
    /\ ListBuilt
    /\ config.fallback_models = <<LocalC, LocalB>>
    /\ models_to_try = <<LocalA, LocalC, LocalB>>

(* C15: within one dispatch no model id is attempted as two candidates: a   *)
(* fallback descriptor whose model id is that of a candidate already       *)
(* attempted in the dispatch is not attempted again.                       *)
C15_NoModelIdAttemptedTwice ==
    \A i, j \in DOMAIN adapter_calls :
        adapter_calls[i].model.model_name = adapter_calls[j].model.model_name
            => adapter_calls[i].model_idx = adapter_calls[j].model_idx

\* the adapter calls a dispatch has made when every call so far has failed,
\* as the candidate list and the retry count alone determine them: every
\* enabled candidate in list order, attempts 0 .. max_retries - 1 against each
RECURSIVE FailingSchedule(_, _)
FailingSchedule(models, i) ==
    IF i > Len(models) THEN <<>>
    ELSE (IF models[i].enabled
          THEN [a \in 1..config.max_retries |-> [model_idx |-> i, attempt |-> a - 1]]
          ELSE <<>>)
         \o FailingSchedule(models, i + 1)

\* the adapter calls of the dispatch, as (candidate, attempt) positions
CallPositions ==
    [k \in DOMAIN adapter_calls |->
        [model_idx |-> adapter_calls[k].model_idx,
         attempt |-> adapter_calls[k].attempt]]

(* C17: the number and order of adapter attempts in a dispatch do not       *)
(* depend on the kind of error the adapter raises: whatever errors the     *)
(* failed calls raised (quota, authentication, timeout), the calls made    *)
(* are a prefix of the one schedule fixed by the candidate list and        *)
(* max_retries, only the last call may have succeeded, and the dispatch    *)
(* raises exhaustion exactly when the whole schedule has failed.           *)
C17_AttemptsIndependentOfErrorKind ==
    ListBuilt =>
        LET schedule == FailingSchedule(models_to_try, 1)
            n == Len(adapter_calls)
        IN /\ n <= Len(schedule)
           /\ CallPositions = SubSeq(schedule, 1, n)
           /\ \A k \in 1..(n - 1) : ~adapter_calls[k].ok
           /\ ExhaustedError <=> (Done /\ n = Len(schedule)
                                       /\ \A k \in 1..n : ~adapter_calls[k].ok)


\* a dispatch over two candidates and two retries each, exhausted by four
\* failed calls of which the last raised an authentication error
C17_Witness ==
    /\ ExhaustedError
    /\ config.max_retries = 2
    /\ Len(models_to_try) = 2
    /\ CallPositions = <<[model_idx |-> 1, attempt |-> 0], [model_idx |-> 1, attempt |-> 1],
                         [model_idx |-> 2, attempt |-> 0], [model_idx |-> 2, attempt |-> 1]>>
    /\ last_error # <<>> /\ last_error[1].type = "AuthenticationError"

\* whether text s holds the text sub
Contains(s, sub) ==
    \E i \in 1..(Len(s) - Len(sub) + 1) : SubSeq(s, i, i + Len(sub) - 1) = sub

(* C18: whenever a dispatch ends in exhaustion after at least one failed    *)
(* attempt, the message of the raised error reports the models tried, the  *)
(* tier, the redacted text of the last error and the next step of the tier *)
(* (local: check the server; remote: check credentials and network),       *)
(* whatever the kind of the last error.                                    *)
C18_ExhaustionMessage ==
    (ExhaustedError /\ adapter_calls # <<>>) =>
        /\ Contains(result.message, "tried " \o ToString(attempts_count) \o " model(s)")
        /\ Contains(result.message,
                    IF Tier(model_config) = "local" THEN "local" ELSE "cloud")
        /\ Contains(result.message, _sanitize_log_message(last_error[1].text))
        /\ ~HasSecret(result.message)
        /\ Contains(result.message,
                    IF Tier(model_config) = "local"
                    THEN "Check Ollama server"
                    ELSE "Check API keys and network connectivity")

(* C19: the ledger cost is monotonically non-decreasing: no step of a       *)
(* generate or generate_structured call (adapter success, cache hit,       *)
(* budget denial, exhaustion) lowers total_cost; only reset_stats does.    *)
C19_LedgerMonotone ==
    [][reset_stats \/ total_cost' >= total_cost]_vars

(* C20: a cache key, once written, is immutable: no step of a later         *)
(* generate call removes the entry of a key or changes the content stored  *)
(* under it.                                                               *)
C20_CacheEntryImmutable ==
    [][\A key \in DOMAIN cache :
          /\ key \in DOMAIN cache'
          /\ cache'[key].content = cache[key].content]_vars

ValidDescriptor(m) ==
    /\ m.provider # ""
    /\ m.model_name # ""
    /\ m.cost_per_1k_tokens >= 0

ValidPolicy(cfg) ==
    /\ ValidDescriptor(cfg.primary_model)
    /\ \A i \in DOMAIN cfg.fallback_models : ValidDescriptor(cfg.fallback_models[i])
    /\ \A t \in DOMAIN cfg.specialized_models : ValidDescriptor(cfg.specialized_models[t])
    /\ cfg.max_retries >= 0
    /\ cfg.retry_delay >= 0
    /\ cfg.retry_delay_remote >= 0
    /\ cfg.max_cost_per_scan >= 0

(* C22: constructing a descriptor or a policy with an empty provider or     *)
(* model id or with a negative numeric parameter fails, so no dispatch     *)
(* starts from such a configuration: the policy of every dispatch, and the *)
(* per-call descriptor it is given, are valid.                             *)
C22_ConfigurationValidated ==
    InDispatch =>
        /\ ValidPolicy(config)
        /\ req.model_config # <<>> => ValidDescriptor(req.model_config[1])

(* C23: an exception raised while the observer handles an adapter attempt   *)
(* is swallowed and logged: every attempt ends as the backend's reply      *)
(* decides, the handler's exception is never the error of an attempt, and  *)
(* a handler that failed has logged its non-fatal line.                    *)
C23_ObserverExceptionSwallowed ==
    /\ \A k \in DOMAIN adapter_calls :
          /\ adapter_calls[k].network => adapter_calls[k].ok = adapter_calls[k].backend_ok
          /\ adapter_calls[k].observer_fault
                => adapter_calls[k].observer_line = CallbackErrorLine
    /\ last_error # <<>> => last_error[1] # CallbackError

\* the handler failed on a failed attempt and on the successful one after it
C23_Witness ==
    /\ AdapterSuccess
    /\ Len(adapter_calls) = 2
    /\ adapter_calls[1].observer_fault /\ ~adapter_calls[1].ok
    /\ adapter_calls[2].observer_fault /\ adapter_calls[2].ok

---------------------------------------------------------------------------
(* The construction of clients in one process: the callback registration  *)
(* of LLMClient.__init__                                                   *)

\* the client variables of a specification that dispatches nothing
ClientUnused ==
    /\ config = Policy(LocalA, <<>>, [t \in {} |-> NoModel], TRUE, 1, TRUE, TRUE)
    /\ total_cost = 0
    /\ request_count = 0
    /\ providers = <<>>
    /\ cache = <<>>
    /\ pc = "idle"
    /\ req = NoRequest
    /\ model_config = NoModel
    /\ cache_key = ""
    /\ models_to_try = <<>>
    /\ model_idx = 0
    /\ attempt = 0
    /\ attempts_count = 0
    /\ last_error = <<>>
    /\ result = NoResult
    /\ trace = <<>>
    /\ adapter_calls = <<>>
    /\ sleeps = <<>>
    /\ log_lines = <<>>
    /\ start = NoSnapshot
    /\ dispatches = 0

\* mutant: a new RaptorLLMLogger for every caller
_get_raptor_llm_logger_fresh(instance, created) ==
    [instance |-> <<RaptorLLMLogger(created + 1)>>, created |-> created + 1]

\* _get_raptor_llm_logger: the singleton and the object count after the call
_get_raptor_llm_logger(instance, created) ==
    IF instance = <<>>
    THEN [instance |-> <<RaptorLLMLogger(created + 1)>>, created |-> created + 1]
    ELSE [instance |-> instance, created |-> created]

\* LLMClient.__init__, as far as the process is concerned
LLMClient_init ==
    /\ constructed < MaxClients
    /\ LET got == _get_raptor_llm_logger(_raptor_llm_logger_instance, loggers_created)
           callback == got.instance[1]
       IN /\ _raptor_llm_logger_instance' = got.instance
          /\ loggers_created' = got.created
          /\ callbacks' = IF callback \notin Range(callbacks)
                          THEN Append(callbacks, callback)
                          ELSE callbacks
    /\ constructed' = constructed + 1
    /\ UNCHANGED not_process

\* other code appends a callback of its own to litellm.callbacks
RegisterForeign ==
    /\ \E id \in 1..MaxForeign :
          /\ ForeignCallback(id) \notin Range(callbacks)
          /\ callbacks' = Append(callbacks, ForeignCallback(id))
    /\ UNCHANGED <<_raptor_llm_logger_instance, loggers_created, constructed,
                   not_process>>

ConstructInit ==
    /\ ClientUnused
    /\ PureIdle
    /\ NoThreads
    /\ callbacks = <<>>
    /\ _raptor_llm_logger_instance = <<>>
    /\ loggers_created = 0
    /\ constructed = 0

ConstructNext == LLMClient_init \/ RegisterForeign

SpecConstruct == ConstructInit /\ [][ConstructNext]_vars

\* the RaptorLLMLogger objects in litellm.callbacks
RegisteredObservers ==
    {i \in DOMAIN callbacks : callbacks[i].class = "RaptorLLMLogger"}

(* C24: after constructing any number of LLMClient instances the global     *)
(* callback list holds the RaptorLLMLogger observer exactly once: the      *)
(* first construction registers it and every further construction leaves   *)
(* the number of registered callbacks unchanged.                           *)
C24_ObserverRegisteredOnce ==
    /\ constructed >= 1 => Cardinality(RegisteredObservers) = 1
    /\ constructed = 0 => RegisteredObservers = {}
    /\ loggers_created <= 1

\* three clients constructed around foreign registrations: one observer
C24_Witness ==
    /\ constructed = 3
    /\ Len(callbacks) = 3
    /\ Cardinality(RegisteredObservers) = 1
    /\ callbacks[2].class = "RaptorLLMLogger"

---------------------------------------------------------------------------
(* _is_quota_error called on its own *)

QuotaInit ==
    /\ ClientUnused
    /\ OneClientConstructed
    /\ NoThreads
    /\ call_args \in {<<e>> : e \in QuotaSamples}
    /\ call_result = <<>>

Classify ==
    /\ call_result = <<>>
    /\ call_result' = <<_is_quota_error(call_args[1])>>
    /\ UNCHANGED <<call_args, not_pure>>

SpecQuota == QuotaInit /\ [][Classify]_vars

\* whether a text holds a lower-case phrase, letters compared without case
FoldEq(c, d) ==
    \/ c = d
    \/ \E k \in 1..Len(UpperCase) :
          SubSeq(UpperCase, k, k) = c /\ SubSeq(LowerCase, k, k) = d

Mentions(text, phrase) ==
    \E i \in 1..(Len(text) - Len(phrase) + 1) :
        \A j \in 1..Len(phrase) :
            FoldEq(SubSeq(text, i + j - 1, i + j - 1), SubSeq(phrase, j, j))

(* C28: an error is classified as quota/rate-limit iff it is of the         *)
(* rate-limit exception type or its text, compared without case, holds     *)
(* "429", "quota exceeded", both "quota" and "exceeded", "rate limit" or   *)
(* "generate_content_free_tier"; an error that mentions only a limit or    *)
(* "exceeded", with none of these, is not classified as quota.             *)
C28_QuotaClassification ==
    call_result # <<>> =>
        LET e == call_args[1]
            verdict == call_result[1]
        IN /\ verdict <=>
                \/ e.type = "RateLimitError"
                \/ Mentions(e.text, "429")
                \/ Mentions(e.text, "quota exceeded")
                \/ Mentions(e.text, "quota") /\ Mentions(e.text, "exceeded")
                \/ Mentions(e.text, "rate limit")
                \/ Mentions(e.text, "generate_content_free_tier")
           /\ ( /\ e.type # "RateLimitError"
                /\ Mentions(e.text, "limit") \/ Mentions(e.text, "exceeded")
                /\ ~Mentions(e.text, "quota")
                /\ ~Mentions(e.text, "rate limit")
                /\ ~Mentions(e.text, "429")
                /\ ~Mentions(e.text, "generate_content_free_tier") )
              => ~verdict

\* a plain exception whose text holds the phrase in capitals is classified
C28_Witness ==
    /\ call_args = <<[type |-> "Exception", text |-> "Quota Exceeded"]>>
    /\ call_result = <<TRUE>>

---------------------------------------------------------------------------
(* _dict_schema_to_pydantic called on its own *)

\* s.find(sub) + 1, 0 when sub is not in s
find(sub, s) ==
    LET at == {i \in 1..(Len(s) - Len(sub) + 1) :
                  SubSeq(s, i, i + Len(sub) - 1) = sub}
    IN IF at = {} THEN 0 ELSE CHOOSE i \in at : \A j \in at : i <= j

\* s.strip(), for blanks
strip(s) ==
    LET filled == {i \in 1..Len(s) : SubSeq(s, i, i) # " "}
    IN IF filled = {} THEN ""
       ELSE SubSeq(s, CHOOSE i \in filled : \A j \in filled : i <= j,
                      CHOOSE i \in filled : \A j \in filled : i >= j)

type_aliases(field_type) ==
    CASE field_type = "bool" -> "boolean"
      [] field_type = "str" -> "string"
      [] field_type = "int" -> "integer"
      [] field_type = "float" -> "number"
      [] field_type = "list" -> "array"
      [] field_type = "dict" -> "object"
      [] OTHER -> field_type

\* the property the AUTO-WRAP branch builds from one item of a shorthand
\* declaration that raises nothing
shorthand_property(item) ==
    IF item.value_type = "str"
    THEN LET field_desc == item.value
         IN [key |-> item.key,
             type |-> <<type_aliases(first_token(field_desc)[1])>>,
             description |->
                 IF find(" - ", field_desc) > 0
                 THEN <<strip(SubSeq(field_desc, find(" - ", field_desc) + 3,
                                     Len(field_desc)))>>
                 ELSE IF find("(", field_desc) > 0
                 THEN <<strip(SubSeq(field_desc, find("(", field_desc),
                                     Len(field_desc)))>>
                 ELSE <<>>,
             default |-> <<>>]
    ELSE [key |-> item.key, type |-> item.type,
          description |-> <<>>, default |-> item.default]

type_map(field_type) ==
    CASE field_type = "string" -> "str"
      [] field_type = "integer" -> "int"
      [] field_type = "number" -> "float"
      [] field_type = "boolean" -> "bool"
      [] field_type = "array" -> "list"
      [] field_type = "object" -> "dict"
      [] field_type = "null" -> "NoneType"
      [] OTHER -> "str"

\* the field definition handed to create_model: the Python type, whether it
\* is wrapped in Optional, the default (<<>> is Ellipsis, the field is
\* required) and the description of the field, which create_model is not
\* given
field_definition(field_spec, has_required_key, required_fields) ==
    LET field_type == IF field_spec.type = <<>> THEN "string"
                      ELSE field_spec.type[1]
        is_required == (~has_required_key)
                       \/ field_spec.key \in Range(required_fields)
        implicit == ~is_required /\ field_spec.default = <<>>
    IN [name |-> field_spec.key,
        python_type |-> type_map(field_type),
        optional |-> implicit,
        default |-> IF implicit THEN <<"None">> ELSE field_spec.default,
        description |-> <<>>]

\* the model class _dict_schema_to_pydantic returns, or what it raises
DynamicSchema(schema) ==
    IF _dict_schema_to_pydantic(schema) # <<>>
    THEN [raised |-> _dict_schema_to_pydantic(schema), fields |-> <<>>]
    ELSE IF schema.python_type = "BaseModel"
    THEN [raised |-> <<>>, fields |-> schema.fields]
    ELSE LET full == \E i \in DOMAIN schema.items : schema.items[i].key = "properties"
             properties ==
                 IF full
                 THEN [i \in DOMAIN schema.properties |->
                          [key |-> schema.properties[i].key,
                           type |-> schema.properties[i].type,
                           description |-> <<>>,
                           default |-> schema.properties[i].default]]
                 ELSE [i \in DOMAIN schema.items |->
                          shorthand_property(schema.items[i])]
             has_required_key ==
                 (~full) \/ \E i \in DOMAIN schema.items :
                                schema.items[i].key = "required"
             required_fields ==
                 IF ~full THEN [i \in DOMAIN schema.items |-> schema.items[i].key]
                 ELSE IF has_required_key THEN schema.required ELSE <<>>
         IN [raised |-> <<>>,
             fields |-> [i \in DOMAIN properties |->
                            field_definition(properties[i], has_required_key,
                                             required_fields)]]

\* declarations: items of a shorthand declaration, field specs, full forms
Described(key, field_desc) ==
    [key |-> key, value_type |-> "str", value |-> field_desc]

FieldSpec(key, type, default) ==
    [key |-> key, value_type |-> "dict", value |-> "", type |-> type,
     default |-> default]

Shorthand(items) == [python_type |-> "dict", items |-> items]

FullForm(properties, required) ==
    [python_type |-> "dict",
     items |-> <<[key |-> "properties", value_type |-> "dict", value |-> ""]>>
               \o [i \in DOMAIN required |->
                      [key |-> "required", value_type |-> "list", value |-> ""]],
     properties |-> properties,
     required |-> IF required = <<>> THEN <<>> ELSE required[1]]

FieldDescs ==
    {"boolean", "bool", "string", "str", "integer", "int", "number", "float",
     "array", "list", "object", "dict", "null", "float (0-1)",
     "float (0.0-1.0)", "string - rationale", "str - why (short)",
     "  int  (count) ", "float(0-1)", "text", "Boolean", "", "  "}

Declarations ==
    {Shorthand(<<Described("f", d)>>) : d \in FieldDescs}
    \cup {Shorthand(<<Described("is_exploitable", "boolean"),
                      Described("score", "float (0-1)")>>),
          ShorthandSchema, ListSchema, NoSchema,
          Shorthand(<<>>),
          Shorthand(<<[key |-> "f", value_type |-> "int", value |-> "5"]>>),
          Shorthand(<<FieldSpec("f", <<"integer">>, <<>>),
                      Described("g", "bool")>>),
          [python_type |-> "BaseModel", items |-> <<>>,
           fields |-> <<[name |-> "f", python_type |-> "str",
                         optional |-> FALSE, default |-> <<>>,
                         description |-> <<>>]>>],
          FullForm(<<Described("a", "string")>>, <<>>)}
    \cup {FullForm(<<FieldSpec("a", t, d), FieldSpec("b", <<"integer">>, e)>>, r) :
             t \in {<<>>, <<"boolean">>, <<"text">>},
             d \in {<<>>, <<"x">>, <<"None">>},
             e \in {<<>>, <<"0">>},
             r \in {<<>>, << <<>> >>, << <<"a">> >>, << <<"b">> >>,
                    << <<"a", "b">> >>, << <<"c">> >>}}

SchemaInit ==
    /\ ClientUnused
    /\ OneClientConstructed
    /\ NoThreads
    /\ call_args \in {<<schema>> : schema \in Declarations}
    /\ call_result = <<>>

CompileSchema ==
    /\ call_result = <<>>
    /\ call_result' = <<DynamicSchema(call_args[1])>>
    /\ UNCHANGED <<call_args, not_pure>>

SpecSchema == SchemaInit /\ [][CompileSchema]_vars

\* the declaration compiled and what came of it
Compiled == call_result # <<>>
Declaration == call_args[1]
Outcome == call_result[1]

IsFullForm(schema) ==
    /\ schema.python_type = "dict"
    /\ \E i \in DOMAIN schema.items : schema.items[i].key = "properties"

IsShorthand(schema) ==
    /\ schema.python_type = "dict"
    /\ ~IsFullForm(schema)

\* a field is mandatory when the model class gives it no default
Mandatory(field) == field.default = <<>>

\* the fixed type set and the Python type of each of its keywords
TypeKeywords ==
    {"string", "integer", "number", "boolean", "array", "object", "null"}

PythonType(keyword) ==
    CASE keyword = "string" -> "str"
      [] keyword = "integer" -> "int"
      [] keyword = "number" -> "float"
      [] keyword = "boolean" -> "bool"
      [] keyword = "array" -> "list"
      [] keyword = "object" -> "dict"
      [] keyword = "null" -> "NoneType"

AliasTable ==
    {<<"bool", "boolean">>, <<"str", "string">>, <<"int", "integer">>,
     <<"float", "number">>, <<"list", "array">>, <<"dict", "object">>}

\* the type keyword a type string names: its first blank-separated token,
\* mapped through the alias table
Keyword(field_desc) ==
    LET token == first_token(field_desc)[1]
    IN IF \E a \in AliasTable : a[1] = token
       THEN (CHOOSE a \in AliasTable : a[1] = token)[2]
       ELSE token

\* a type string that names a keyword of the fixed type set
Tokenizable(field_desc) ==
    /\ first_token(field_desc) # <<>>
    /\ Keyword(field_desc) \in TypeKeywords

\* the description a type string carries: the text after " - ", or else the
\* text from the opening parenthesis on
Description(field_desc) ==
    IF find(" - ", field_desc) > 0
    THEN <<strip(SubSeq(field_desc, find(" - ", field_desc) + 3, Len(field_desc)))>>
    ELSE IF find("(", field_desc) > 0
    THEN <<strip(SubSeq(field_desc, find("(", field_desc), Len(field_desc)))>>
    ELSE <<>>

\* a shorthand declaration all of whose entries are tokenizable type strings
PlainShorthand(schema) ==
    /\ IsShorthand(schema)
    /\ \A i \in DOMAIN schema.items :
          /\ schema.items[i].value_type = "str"
          /\ Tokenizable(schema.items[i].value)

(* C25: compiling a shorthand declaration yields one field per entry,       *)
(* every field required, whose type is the first whitespace token of the   *)
(* type string mapped through the alias table and whose description is the *)
(* text after " - " or the trailing parenthesized text; the declaration    *)
(* {"is_exploitable": "boolean", "score": "float (0-1)"} yields two        *)
(* required fields of type boolean and number, "(0-1)" described on score. *)
C25_ShorthandCompiled ==
    (Compiled /\ PlainShorthand(Declaration)) =>
        /\ Outcome.raised = <<>>
        /\ Len(Outcome.fields) = Len(Declaration.items)
        /\ \A i \in DOMAIN Declaration.items :
              LET field == Outcome.fields[i]
                  item == Declaration.items[i]
              IN /\ field.name = item.key
                 /\ Mandatory(field) /\ ~field.optional
                 /\ field.python_type = PythonType(Keyword(item.value))
                 /\ field.description = Description(item.value)

(* C26: compiling a full-form declaration: when "required" is present      *)
(* exactly the listed fields are mandatory and every other field is        *)
(* optional, with a null default when it has no explicit default and its   *)
(* explicit default otherwise; when "required" is absent every field       *)
(* without a default is mandatory.                                         *)
C26_FullFormRequired ==
    (Compiled /\ IsFullForm(Declaration) /\ Outcome.raised = <<>>) =>
        /\ Len(Outcome.fields) = Len(Declaration.properties)
        /\ \A i \in DOMAIN Declaration.properties :
              LET field == Outcome.fields[i]
                  field_spec == Declaration.properties[i]
                  listed == \E k \in DOMAIN Declaration.required :
                                Declaration.required[k] = field_spec.key
              IN IF \E k \in DOMAIN Declaration.items :
                        Declaration.items[k].key = "required"
                 THEN /\ Mandatory(field) <=> listed
                      /\ ~listed =>
                            field.default = IF field_spec.default = <<>>
                                            THEN <<"None">>
                                            ELSE field_spec.default
                 ELSE field_spec.default = <<>> => Mandatory(field)

(* C27: schema compilation rejects what it cannot normalize: a declaration *)
(* that is neither shorthand, full form nor already canonical, or a field  *)
(* description that cannot be tokenized into a type keyword of the fixed   *)
(* type set, makes compilation raise the schema error instead of           *)
(* returning a schema.                                                     *)
C27_RejectsUnnormalizable ==
    Compiled =>
        LET rejected == /\ Outcome.raised # <<>>
                        /\ Outcome.raised[1].type = "ValueError"
        IN /\ Declaration.python_type \notin {"dict", "BaseModel"} => rejected
           /\ ( /\ IsShorthand(Declaration)
                /\ \E i \in DOMAIN Declaration.items :
                      /\ Declaration.items[i].value_type = "str"
                      /\ ~Tokenizable(Declaration.items[i].value) )
              => rejected

---------------------------------------------------------------------------
(* generate called from two threads, on one client or on one client each:  *)
(* a step of a thread reads or writes shared state (an attribute of the    *)
(* client, a cache file) at most once.  The clients have one enabled       *)
(* remote model, no fallback and max_retries = 1; the counters the         *)
(* adapters keep for themselves are left out.                              *)

DefaultCacheDir == "out/llm_cache"
OwnCacheDir == "out/own_cache"

Threads == {1, 2}

ThreadedConfig(caching, dir) ==
    [config |-> Policy(RemoteA, <<>>, [t \in {} |-> NoModel], FALSE, 1,
                       caching, TRUE),
     cache_dir |-> dir]

\* a client after construction
NewClient(cfg) ==
    [config |-> cfg.config, cache_dir |-> cfg.cache_dir,
     total_cost |-> 0, request_count |-> 0]

NewThread(client, prompt) ==
    [client |-> client, prompt |-> prompt, pc |-> "idle", cache_key |-> "",
     cached_content |-> <<>>, response |-> <<>>, loaded |-> 0,
     seen |-> <<>>, result |-> ""]

\* what the adapter answers to a thread
ThreadReplies ==
    {[ok |-> TRUE, content |-> "x", tokens_used |-> 1, cost |-> c] : c \in {1, 2}}
    \cup {[ok |-> FALSE, content |-> "", tokens_used |-> 0, cost |-> 0]}

\* mutant: the sum of the attribute as it is when the result is stored
iadd_atomic(current, loaded, amount) == current + amount

\* self.attr += amount: the value stored is the sum of the value loaded
\* before and the amount
iadd(current, loaded, amount) == loaded + amount

ThreadsInit ==
    /\ ClientUnused
    /\ OneClientConstructed
    /\ PureIdle
    /\ \E caching \in [1..2 -> BOOLEAN], dir \in {DefaultCacheDir, OwnCacheDir} :
          clients = <<NewClient(ThreadedConfig(caching[1], DefaultCacheDir)),
                      NewClient(ThreadedConfig(caching[2], dir))>>
    /\ cache_dirs = [d \in {DefaultCacheDir, OwnCacheDir} |-> <<>>]
    /\ \E c \in 1..2, prompt \in [Threads -> Prompts] :
          threads = [w \in Threads |->
                        NewThread(IF w = 1 THEN 1 ELSE c, prompt[w])]

\* generate up to the budget check, which reads self.total_cost
CheckBudget ==
    \E w \in Threads :
        LET t == threads[w]
            self == clients[t.client]
        IN /\ t.pc = "idle"
           /\ threads' = [threads EXCEPT ![w] =
                 IF _check_budget(self.config, self.total_cost)
                 THEN [t EXCEPT !.pc = "lookup"]
                 ELSE [t EXCEPT !.pc = "done", !.result = "budget"]]
           /\ UNCHANGED <<clients, cache_dirs, not_threaded>>

\* the selection and the cache lookup, which reads the cache directory
CacheLookup ==
    \E w \in Threads :
        LET t == threads[w]
            self == clients[t.client]
            selected == select_model(self.config,
                                     Request("generate", t.prompt, "", <<>>, NoSchema))
            key == _get_cache_key(t.prompt, "", selected.model_name)
            cached == _get_cached_response(self.config,
                                           cache_dirs[self.cache_dir], key)
        IN /\ t.pc = "lookup"
           /\ threads' = [threads EXCEPT ![w] =
                 [t EXCEPT !.cache_key = key,
                           !.cached_content = IF truthy(cached) THEN cached ELSE <<>>,
                           !.pc = IF truthy(cached) THEN "load_count" ELSE "call"]]
           /\ UNCHANGED <<clients, cache_dirs, not_threaded>>

\* the one adapter call of the retry loop; a failure is the last of the
\* only candidate and generate raises
AdapterCall ==
    \E w \in Threads, reply \in ThreadReplies :
        LET t == threads[w]
        IN /\ t.pc = "call"
           /\ threads' = [threads EXCEPT ![w] =
                 IF reply.ok
                 THEN [t EXCEPT !.pc = "load_cost",
                                !.response = <<[content |-> reply.content,
                                                model |-> RemoteA.model_name,
                                                provider |-> RemoteA.provider,
                                                tokens_used |-> reply.tokens_used,
                                                cost |-> reply.cost]>>]
                 ELSE [t EXCEPT !.pc = "done", !.result = "exhausted"]]
           /\ UNCHANGED <<clients, cache_dirs, not_threaded>>

\* self.total_cost += response.cost: the attribute is loaded
LoadTotalCost ==
    \E w \in Threads :
        LET t == threads[w]
            self == clients[t.client]
        IN /\ t.pc = "load_cost"
           /\ threads' = [threads EXCEPT ![w] =
                 [t EXCEPT !.pc = "store_cost", !.loaded = self.total_cost,
                           !.seen = <<self.total_cost>>]]
           /\ UNCHANGED <<clients, cache_dirs, not_threaded>>

\* self.total_cost += response.cost: the sum is stored
StoreTotalCost ==
    \E w \in Threads :
        LET t == threads[w]
            self == clients[t.client]
        IN /\ t.pc = "store_cost"
           /\ clients' = [clients EXCEPT ![t.client].total_cost =
                 iadd(self.total_cost, t.loaded, t.response[1].cost)]
           /\ threads' = [threads EXCEPT ![w] = [t EXCEPT !.pc = "load_count"]]
           /\ UNCHANGED <<cache_dirs, not_threaded>>

\* self.request_count += 1 (after a cache hit or a response): the load
LoadRequestCount ==
    \E w \in Threads :
        LET t == threads[w]
            self == clients[t.client]
        IN /\ t.pc = "load_count"
           /\ threads' = [threads EXCEPT ![w] =
                 [t EXCEPT !.pc = "store_count", !.loaded = self.request_count]]
           /\ UNCHANGED <<clients, cache_dirs, not_threaded>>

\* self.request_count += 1: the store; a cache hit returns here
StoreRequestCount ==
    \E w \in Threads :
        LET t == threads[w]
            self == clients[t.client]
        IN /\ t.pc = "store_count"
           /\ clients' = [clients EXCEPT ![t.client].request_count =
                 iadd(self.request_count, t.loaded, 1)]
           /\ threads' = [threads EXCEPT ![w] =
                 IF t.cached_content # <<>>
                 THEN [t EXCEPT !.pc = "done", !.result = "cached"]
                 ELSE [t EXCEPT !.pc = "save"]]
           /\ UNCHANGED <<cache_dirs, not_threaded>>

\* self._save_to_cache(cache_key, response), and the return
SaveToCache ==
    \E w \in Threads :
        LET t == threads[w]
            self == clients[t.client]
        IN /\ t.pc = "save"
           /\ cache_dirs' = [cache_dirs EXCEPT ![self.cache_dir] =
                 _save_to_cache(self.config, @, t.cache_key, t.response[1])]
           /\ threads' = [threads EXCEPT ![w] =
                 [t EXCEPT !.pc = "done", !.result = "response"]]
           /\ UNCHANGED <<clients, not_threaded>>

ThreadsNext ==
    \/ CheckBudget
    \/ CacheLookup
    \/ AdapterCall
    \/ LoadTotalCost
    \/ StoreTotalCost
    \/ LoadRequestCount
    \/ StoreRequestCount
    \/ SaveToCache

SpecThreads == ThreadsInit /\ [][ThreadsNext]_vars

\* the cache entries a client can hit
Hittable(self, dirs) ==
    IF self.config.enable_caching THEN DOMAIN dirs[self.cache_dir] ELSE {}

\* no thread of client c moves in the step
Untouched(c) ==
    \A w \in Threads : threads[w].client = c => threads'[w] = threads[w]

(* C29: the ledger and the cache are owned by one client: for two          *)
(* LLMClient instances each driven by its own thread, under every          *)
(* interleaving of their dispatches, a step of a dispatch on one instance  *)
(* changes neither the other instance's ledger nor the set of cache        *)
(* entries the other instance can hit.                                     *)
C29_InstancesIsolated ==
    [][threads[1].client # threads[2].client =>
          \A c \in DOMAIN clients :
              Untouched(c) =>
                  /\ clients'[c].total_cost = clients[c].total_cost
                  /\ clients'[c].request_count = clients[c].request_count
                  /\ Hittable(clients'[c], cache_dirs')
                        = Hittable(clients[c], cache_dirs)]_vars

\* both threads called generate on the same client and both got a response
\* from the adapter
BothResponded ==
    /\ threads[1].client = threads[2].client
    /\ \A w \in Threads : threads[w].pc = "done" /\ threads[w].result = "response"

(* C30: one client is not safe for concurrent calls: when two generate     *)
(* calls on the same LLMClient both succeed through an adapter and         *)
(* neither loaded total_cost after the other had stored it, total_cost     *)
(* ends at the initial value plus one of the two reported costs, smaller   *)
(* than the initial value plus both (a lost update); otherwise it ends at  *)
(* the initial value plus both.                                            *)
C30_LostLedgerUpdate ==
    BothResponded =>
        LET cost(w) == threads[w].response[1].cost
            ledger == clients[threads[1].client].total_cost
        IN IF threads[1].seen = threads[2].seen
           THEN /\ ledger \in {cost(1), cost(2)}
                /\ ledger < 0 + cost(1) + cost(2)
           ELSE ledger = 0 + cost(1) + cost(2)

\* such an interleaving: both responses paid for, the ledger short
C30_Witness ==
    /\ BothResponded
    /\ clients[threads[1].client].total_cost
          < 0 + threads[1].response[1].cost + threads[2].response[1].cost

---------------------------------------------------------------------------
(* The cost an adapter reports *)

\* the dispatch returned the response of a generate call to an adapter
GenerateSuccess ==
    /\ Done
    /\ req.kind = "generate"
    /\ AdapterSuccess

\* the cost counter of the adapter of key k in a registry (0 when absent)
AdapterCost(registry, k) ==
    IF k \in DOMAIN registry THEN registry[k].total_cost ELSE 0

---------------------------------------------------------------------------
(* _get_cache_key on two requests: the entry saved for the first, looked   *)
(* up for the second                                                       *)

KeyModels == {"A", "A:s"}
KeySystemPrompts == {"", "s", "s:t", "t"}
KeyPrompts == {"p", "t:p", "s:p", ":p"}

KeyTriples ==
    {[model |-> m, system_prompt |-> s, prompt |-> p] :
        m \in KeyModels, s \in KeySystemPrompts, p \in KeyPrompts}

KeyInit ==
    /\ ClientUnused
    /\ OneClientConstructed
    /\ NoThreads
    /\ call_args \in {<<a, b>> : a \in KeyTriples, b \in {t \in KeyTriples : t.model = "A"}}
    /\ call_result = <<>>

\* the response for the first triple is saved in an empty cache directory,
\* then the second triple is looked up
SaveThenLookup ==
    /\ call_result = <<>>
    /\ LET cfg == Policy(RemoteA, <<>>, [t \in {} |-> NoModel], TRUE, 1, TRUE, TRUE)
           key(t) == _get_cache_key(t.prompt, t.system_prompt, t.model)
           saved == _save_to_cache(cfg, <<>>, key(call_args[1]),
                                   [content |-> "x", model |-> call_args[1].model,
                                    provider |-> "openai", tokens_used |-> 1])
       IN call_result' = <<[keys |-> <<key(call_args[1]), key(call_args[2])>>,
                            cached_content |->
                                _get_cached_response(cfg, saved, key(call_args[2]))]>>
    /\ UNCHANGED <<call_args, not_pure>>

SpecKey == KeyInit /\ [][SaveThenLookup]_vars

(* C32: distinct requests never share a cache entry: two (model id, system *)
(* prompt, user prompt) triples that differ in a component are hashed from *)
(* different key strings, so a request is never answered with the response *)
(* cached for a different triple.                                          *)
C32_DistinctTriplesDistinctKeys ==
    (call_result # <<>> /\ call_args[1] # call_args[2]) =>
        /\ call_result[1].keys[1] # call_result[1].keys[2]
        /\ call_result[1].cached_content = <<>>

---------------------------------------------------------------------------
(* The adapter used for a descriptor *)

(* C33: every adapter attempt for a descriptor is made with that           *)
(* descriptor's own parameters: when two descriptors with the same         *)
(* provider and model id but different parameters are dispatched one after *)
(* the other on one client, the attempt for the second uses an adapter     *)
(* configured with the second descriptor.                                  *)
C33_AdapterOfOwnDescriptor ==
    \A i \in DOMAIN adapter_calls :
        adapter_calls[i].used = adapter_calls[i].model

---------------------------------------------------------------------------
(* What a failed dispatch leaves behind *)

(* C34: a dispatch that ends in exhaustion leaves the client's state as it *)
(* was: total_cost and request_count are unchanged, no cache entry is      *)
(* written, and a later dispatch starts from the same ledger as before the *)
(* failed one.                                                             *)
C34_ExhaustionLeavesState ==
    (Done /\ ExhaustedError) =>
        /\ total_cost = start.total_cost
        /\ request_count = start.request_count
        /\ cache = start.cache

\* a dispatch fails on every attempt after an earlier one was paid for
C34_Witness ==
    /\ Done
    /\ ExhaustedError
    /\ adapter_calls # <<>>
    /\ start.total_cost > 0
    /\ start.cache # <<>>
    /\ total_cost = start.total_cost

---------------------------------------------------------------------------
(* The frame of a cache hit *)

(* C35: a cache hit leaves total_cost and every adapter's counters         *)
(* unchanged, creates and invokes no adapter, increments request_count by  *)
(* exactly 1, and returns a response with cost 0.0, tokens_used 0 and      *)
(* finish_reason "cached" carrying the selected model's id and provider.   *)
C35_CacheHitFrame ==
    (Done /\ CacheHit) =>
        LET specialized == config.specialized_models
            selected ==
                IF req.model_config # <<>> THEN req.model_config[1]
                ELSE IF /\ req.task_type \in DOMAIN specialized
                        /\ specialized[req.task_type].enabled
                THEN specialized[req.task_type]
                ELSE config.primary_model
        IN
        /\ total_cost = start.total_cost
        /\ providers = start.providers
        /\ adapter_calls = <<>>
        /\ request_count = start.request_count + 1
        /\ result.cost = 0
        /\ result.tokens_used = 0
        /\ result.finish_reason = "cached"
        /\ result.model = selected.model_name
        /\ result.provider = selected.provider

\* a hit on the entry an earlier, paid dispatch of the client wrote
C35_Witness ==
    /\ Done
    /\ CacheHit
    /\ start.total_cost > 0
    /\ start.providers # <<>>
    /\ result.content = "x"

---------------------------------------------------------------------------
(* The client's ledger and the counters of its adapters *)

\* the sum of total_cost over the adapters of a registry
RECURSIVE SumOfCosts(_, _)
SumOfCosts(registry, keys) ==
    IF keys = {} THEN 0
    ELSE LET k == CHOOSE x \in keys : TRUE
         IN registry[k].total_cost + SumOfCosts(registry, keys \ {k})

(* C36: after any sequence of generate, generate_structured and            *)
(* reset_stats calls on one client, the client's total_cost equals the sum *)
(* of total_cost over the adapters in its registry (reset_stats sets both  *)
(* sides to zero, a cache hit or a failed attempt changes neither).        *)
C36_LedgerEqualsAdapterTotals ==
    total_cost = SumOfCosts(providers, DOMAIN providers)

\* two paid dispatches on one client, the second through another adapter
C36_Witness ==
    /\ Done
    /\ dispatches = 2
    /\ start.total_cost > 0
    /\ total_cost > start.total_cost
    /\ Cardinality(DOMAIN providers) = 2

---------------------------------------------------------------------------
(* Where the backoff sleeps fall *)

\* the adapter call of candidate index m and attempt index a was made
Called(m, a) ==
    \E i \in DOMAIN adapter_calls :
        adapter_calls[i].model_idx = m /\ adapter_calls[i].attempt = a

(* C37: a backoff sleep happens only between two attempts against the same *)
(* candidate: no sleep follows a candidate's last attempt, and the attempt *)
(* index restarts at 0 for every candidate, so a fully failing dispatch    *)
(* over N attempted candidates sleeps exactly N * (max_retries - 1) times, *)
(* each candidate's delays starting again at the base delay.               *)
C37_SleepsBetweenAttempts ==
    InDispatch =>
        /\ \A i \in DOMAIN sleeps :
              LET s == sleeps[i]
              IN /\ Called(s.model_idx, s.attempt)
                 /\ s.attempt < config.max_retries - 1
                 /\ Done => Called(s.model_idx, s.attempt + 1)
                 /\ s.delay = sleeps[1].delay * Pow2(s.attempt)
        /\ \A i \in DOMAIN adapter_calls :
              (i = 1 \/ adapter_calls[i - 1].model_idx # adapter_calls[i].model_idx)
                  => adapter_calls[i].attempt = 0
        /\ (Done /\ ExhaustedError) =>
              Len(sleeps) = result.tried * (config.max_retries - 1)

\* three attempts failed against each of two candidates: four sleeps
C37_Witness ==
    /\ Done
    /\ ExhaustedError
    /\ result.tried = 2
    /\ config.max_retries = 3
    /\ Len(sleeps) = 4
    /\ sleeps[3].delay = sleeps[1].delay

---------------------------------------------------------------------------
(* Disabled descriptors *)

(* C38: a descriptor with enabled = false is never passed to an adapter,   *)
(* also when it is the selected primary or the per-call override; when the *)
(* dispatch has no enabled candidate it raises the exhaustion error        *)
(* reporting that no enabled model is available, after zero adapter        *)
(* invocations and zero sleeps.                                            *)
C38_DisabledNeverDispatched ==
    /\ \A i \in DOMAIN adapter_calls :
          adapter_calls[i].model.enabled /\ adapter_calls[i].used.enabled
    /\ \A k \in DOMAIN providers : providers[k].config.enabled
    /\ (Done /\ ~BudgetError /\ ~CacheHit
        /\ EnabledCandidates(model_config) = 0) =>
          /\ ExhaustedError
          /\ result.detail = "no_enabled_models"
          /\ Contains(result.message, "No enabled models available")
          /\ adapter_calls = <<>>
          /\ sleeps = <<>>

\* the per-call override is disabled and nothing is called
C38_Witness ==
    /\ Done
    /\ ExhaustedError
    /\ req.model_config # <<>>
    /\ ~req.model_config[1].enabled
    /\ result.detail = "no_enabled_models"
    /\ adapter_calls = <<>>

---------------------------------------------------------------------------
(* The frame of reset_stats *)

(* C39: reset_stats sets total_cost and request_count to zero and leaves   *)
(* the policy, the adapter registry and the cache entries unchanged: after *)
(* a reset the budget check admits what a fresh client would admit, and a  *)
(* prompt cached before the reset is still a cache hit.                    *)
C39_ResetFrame ==
    [][(pc = "done" /\ pc' = "idle") =>
          /\ total_cost' = 0
          /\ request_count' = 0
          /\ config' = config
          /\ DOMAIN providers' = DOMAIN providers
          /\ \A k \in DOMAIN providers : providers'[k].config = providers[k].config
          /\ cache' = cache
          /\ _check_budget(config', total_cost') = _check_budget(config, 0)
          /\ \A k \in DOMAIN cache :
                _get_cached_response(config', cache', k)
                    = _get_cached_response(config, cache, k)]_vars

\* a dispatch after a reset hits the entry a paid dispatch wrote before it
C39_Witness ==
    /\ Done
    /\ CacheHit
    /\ result.content = "x"
    /\ start.total_cost = 0
    /\ start.request_count = 0
    /\ start.providers # <<>>

---------------------------------------------------------------------------
(* Termination: every adapter call and every sleep returns, so a dispatch  *)
(* that is in its candidate loop goes on                                   *)

SpecLive ==
    /\ Init
    /\ [][Next]_vars
    /\ WF_vars(GenerateAttempt)
    /\ WF_vars(StructuredAttempt)
    /\ WF_vars(Exhausted)

(* C40: every generate and generate_structured call terminates, by         *)
(* returning a response or raising, after at most (1 + number of fallback  *)
(* descriptors) * max_retries adapter invocations, provided every adapter  *)
(* call and every sleep returns.                                           *)
C40_DispatchTerminates ==
    /\ [](Len(adapter_calls)
            <= (1 + Len(config.fallback_models)) * config.max_retries)
    /\ (pc = "trying") ~> (pc = "done" /\ result.kind # "none")

\* a dispatch that made as many adapter calls as the bound allows and ended
C40_Witness ==
    /\ Done
    /\ Len(config.fallback_models) = 2
    /\ Len(adapter_calls) = (1 + Len(config.fallback_models)) * config.max_retries

=============================================================================
